---- MODULE Spec2Model ----
(***************************************************************************)
(* A model of the gas-metering injector (src/src/gas_metering/mod.rs).     *)
(*                                                                         *)
(* Two specifications share the operators that model the code:             *)
(*   Spec        inject_counter on one function body, followed by an       *)
(*               execution of the instrumented body along every path;      *)
(*   SpecInject  gas_metering::inject on a whole module.                   *)
(*                                                                         *)
(* Positions (cursor, start_pos, control-stack indices, function and       *)
(* global indices) are 0-based as in the source; TLA+ sequences are        *)
(* 1-based, so element i of a Vec is seq[i + 1].                           *)
(*                                                                         *)
(* u64 is modelled with U64Bits bits instead of 64 (TLC's integers are 32  *)
(* bits wide): every u64 operation is reduced modulo 2^U64Bits exactly     *)
(* where the source's operation wraps, and fails exactly where the         *)
(* source's operation is checked.                                          *)
(***************************************************************************)
EXTENDS Integers, Sequences, FiniteSets, TLC

VARIABLES
    pc,             \* position of the run
    rules,          \* the Rules implementation passed in
    instructions,   \* Spec: the function body handed to inject_counter
    new_instrs,     \* Spec: the body after inject_counter
    dyn_instrs,     \* Spec: the HashSet inject_counter returns
    ip,             \* Spec: index (1-based) of the next instruction to execute
    charged,        \* Spec: sum of the amounts passed to the gas function so far
    spent,          \* Spec: sum of the static costs of the instructions executed
    jumps,          \* Spec: number of backward branches taken so far
    module,         \* SpecInject: the module handed to inject
    result,         \* SpecInject: what each run of inject returned
    gas_counter,    \* SpecGas: value of the gas counter global
    budget,         \* SpecGas: value of the gas counter when the gas function was entered
    opstack,        \* SpecGas: operand stack of the metered function
    gasframe,       \* SpecGas: frame of the gas function (position, parameter, stack)
    frames,         \* SpecStack: the calls in progress, the innermost last
    globals         \* SpecStack: values of the globals of the instance

vars == <<pc, rules, instructions, new_instrs, dyn_instrs, ip, charged, spent,
          jumps, module, result, gas_counter, budget, opstack, gasframe,
          frames, globals>>

(***************************************************************************)
(* Bounds of the model.                                                    *)
(***************************************************************************)
\* width, in bits, of the modelled u64 / i64
U64Bits == 6
\* longest function body, the final `end` included
MaxLen == 7
\* most block / loop / if instructions in one body
MaxCtl == 2
\* most br / br_if / br_table / return instructions in one body
MaxBr == 1
\* most backward branches followed in one execution
MaxJumps == 1

U64Mod == 2 ^ U64Bits
I64Half == 2 ^ (U64Bits - 1)

(***************************************************************************)
(* Instructions.  Every instruction is a record of the same shape: the     *)
(* opcode, one integer immediate and (br_table only) the label table.      *)
(***************************************************************************)
Ins(op, a) == [op |-> op, a |-> a, table |-> <<>>]

Nop == Ins("Nop", 0)
Block == Ins("Block", 0)
Loop == Ins("Loop", 0)
If == Ins("If", 0)
Else == Ins("Else", 0)
End == Ins("End", 0)
Return == Ins("Return", 0)
Unreachable == Ins("Unreachable", 0)
Br(label) == Ins("Br", label)
BrIf(label) == Ins("BrIf", label)
BrTable(default, table) == [op |-> "BrTable", a |-> default, table |-> table]
I32Const(v) == Ins("I32Const", v)
I64Const(v) == Ins("I64Const", v)
GrowMemory(m) == Ins("GrowMemory", m)
GetGlobal(g) == Ins("GetGlobal", g)
SetGlobal(g) == Ins("SetGlobal", g)
Call(f) == Ins("Call", f)

(***************************************************************************)
(* Integer conversions and arithmetic of the source.                       *)
(***************************************************************************)
\* `x as u64` for an i32 x: sign extension
I32AsU64(x) == IF x < 0 THEN U64Mod + x ELSE x

\* `x as i64` for a u64 x: reinterpretation of the bits
U64AsI64(x) == IF x >= I64Half THEN x - U64Mod ELSE x

Min(a, b) == IF a < b THEN a ELSE b

(***************************************************************************)
(* Rules.  A rule set is ConstantCostRules { instruction_cost,             *)
(* memory_grow_cost } extended with a set of instructions it rejects (a    *)
(* caller's Rules implementation returning Err for them).                  *)
(***************************************************************************)
Fixed(c) == [kind |-> "Fixed", base |-> c, per |-> 0]
Linear(base, per) == [kind |-> "Linear", base |-> base, per |-> per]
Forbidden == [kind |-> "Err", base |-> 0, per |-> 0]

instruction_cost(r, i) ==
    IF i \in r.forbidden THEN Forbidden
    ELSE IF i.op = "GrowMemory"
         THEN (IF r.memory_grow_cost = 0 THEN Fixed(1)
               ELSE Linear(1, r.memory_grow_cost))
         ELSE Fixed(r.instruction_cost)

ConstantCostRules(ic, gc) ==
    [instruction_cost |-> ic, memory_grow_cost |-> gc, forbidden |-> {}]

(***************************************************************************)
(* Counter: the state of the metered-block scanner.  `failed` is the Err   *)
(* of the source's Result (every operation after an Err is skipped by `?`);*)
(* `overflowed` records that an arithmetic operation the source does not   *)
(* check has overflowed: a build with overflow checks panics there, a      *)
(* build without them continues with the wrapped value kept here.          *)
(***************************************************************************)
MeteredBlock(start_pos, cost) == [start_pos |-> start_pos, cost |-> cost]

ControlBlock(lowest, active, is_loop) ==
    [lowest_forward_br_target |-> lowest,
     active_metered_block |-> active,
     is_loop |-> is_loop]

CounterNew ==
    [stack |-> <<>>, finalized_blocks |-> <<>>, failed |-> FALSE,
     overflowed |-> FALSE]

Fail(c) == [c EXCEPT !.failed = TRUE]

begin_control_block(c, cursor, is_loop) ==
    IF c.failed THEN c
    ELSE [c EXCEPT !.stack =
             Append(@, ControlBlock(Len(c.stack), MeteredBlock(cursor, 0), is_loop))]

\* finalize_metered_block losing the cost of a block it merges into the
\* block of the enclosing control block
finalize_metered_block_DropMerged(c, cursor) ==
    IF c.failed THEN c
    ELSE IF c.stack = <<>> THEN Fail(c)
    ELSE
      LET n == Len(c.stack)
          closing == c.stack[n].active_metered_block
          c1 == [c EXCEPT !.stack[n].active_metered_block =
                              MeteredBlock(cursor + 1, 0)]
          last_index == n - 1
      IN  IF last_index > 0
             /\ closing.start_pos = c1.stack[n - 1].active_metered_block.start_pos
          THEN c1
          ELSE IF closing.cost > 0
               THEN [c1 EXCEPT !.finalized_blocks = Append(@, closing)]
               ELSE c1

finalize_metered_block(c, cursor) ==
    IF c.failed THEN c
    ELSE IF c.stack = <<>> THEN Fail(c)
    ELSE
      LET n == Len(c.stack)
          closing == c.stack[n].active_metered_block
          c1 == [c EXCEPT !.stack[n].active_metered_block =
                              MeteredBlock(cursor + 1, 0)]
          last_index == n - 1
      IN  IF last_index > 0
             /\ closing.start_pos = c1.stack[n - 1].active_metered_block.start_pos
          THEN LET sum == c1.stack[n - 1].active_metered_block.cost + closing.cost
               IN  [c1 EXCEPT !.stack[n - 1].active_metered_block.cost = sum % U64Mod,
                              !.overflowed = @ \/ sum >= U64Mod]
          ELSE IF closing.cost > 0
               THEN [c1 EXCEPT !.finalized_blocks = Append(@, closing)]
               ELSE c1

\* finalize_control_block without the split of the parent's metered block
finalize_control_block_NoSplit(c, cursor) ==
    LET c1 == finalize_metered_block(c, cursor)
    IN  IF c1.failed THEN c1
        ELSE
          LET n == Len(c1.stack)
              closing_control_block == c1.stack[n]
              popped == SubSeq(c1.stack, 1, n - 1)
              c2 == [c1 EXCEPT !.stack = popped]
          IN  IF popped = <<>> THEN c2
              ELSE [c2 EXCEPT !.stack[n - 1].lowest_forward_br_target =
                        Min(@, closing_control_block.lowest_forward_br_target)]

finalize_control_block(c, cursor) ==
    LET c1 == finalize_metered_block(c, cursor)
    IN  IF c1.failed THEN c1
        ELSE
          LET n == Len(c1.stack)
              closing_control_block == c1.stack[n]
              popped == SubSeq(c1.stack, 1, n - 1)
              closing_control_index == n - 1
              c2 == [c1 EXCEPT !.stack = popped]
          IN  IF popped = <<>> THEN c2
              ELSE
                LET c3 == [c2 EXCEPT !.stack[n - 1].lowest_forward_br_target =
                              Min(@, closing_control_block.lowest_forward_br_target)]
                    may_br_out ==
                        closing_control_block.lowest_forward_br_target
                            < closing_control_index
                IN  IF may_br_out THEN finalize_metered_block(c3, cursor) ELSE c3

RECURSIVE branch_targets(_, _)
branch_targets(c, indices) ==
    IF c.failed \/ indices = <<>> THEN c
    ELSE
      LET index == Head(indices)
      IN  IF index + 1 > Len(c.stack) THEN Fail(c)
          ELSE IF c.stack[index + 1].is_loop
               THEN branch_targets(c, Tail(indices))
               ELSE branch_targets(
                      [c EXCEPT !.stack[Len(c.stack)].lowest_forward_br_target =
                                    Min(@, index)],
                      Tail(indices))

branch(c, cursor, indices) ==
    branch_targets(finalize_metered_block(c, cursor), indices)

increment(c, val) ==
    IF c.failed THEN c
    ELSE IF c.stack = <<>> THEN Fail(c)
    ELSE LET n == Len(c.stack)
             sum == c.stack[n].active_metered_block.cost + val
         IN  IF sum >= U64Mod THEN Fail(c)
             ELSE [c EXCEPT !.stack[n].active_metered_block.cost = sum]

(***************************************************************************)
(* determine_metered_blocks.  The scanner state is the Counter together    *)
(* with last_const and liniear_cost_instructions.                          *)
(***************************************************************************)
NoConst == [some |-> FALSE, v |-> 0]
SomeConst(v) == [some |-> TRUE, v |-> v]

\* the match on rules.instruction_cost ignoring last_const: a Linear
\* instruction is never folded
static_cost_NeverFolds(r, instruction, last_const) ==
    LET ic == instruction_cost(r, instruction)
    IN  IF ic.kind = "Err"
        THEN [err |-> TRUE, cost |-> 0, dynamic |-> FALSE, overflowed |-> FALSE]
        ELSE [err |-> FALSE, cost |-> ic.base, dynamic |-> ic.kind = "Linear",
              overflowed |-> FALSE]

\* the match on rules.instruction_cost(instruction) at the head of the loop
\* body: the cost charged to the active block, whether the instruction is
\* recorded as dynamic-cost, and whether the unchecked arithmetic overflowed
static_cost(r, instruction, last_const) ==
    LET ic == instruction_cost(r, instruction)
    IN  IF ic.kind = "Err"
        THEN [err |-> TRUE, cost |-> 0, dynamic |-> FALSE, overflowed |-> FALSE]
        ELSE IF ic.kind = "Fixed"
        THEN [err |-> FALSE, cost |-> ic.base, dynamic |-> FALSE,
              overflowed |-> FALSE]
        ELSE IF last_const.some
        THEN LET prod == I32AsU64(last_const.v) * ic.per
                 sum == ic.base + (prod % U64Mod)
             IN  [err |-> FALSE, cost |-> sum % U64Mod, dynamic |-> FALSE,
                  overflowed |-> (prod >= U64Mod \/ sum >= U64Mod)]
        ELSE [err |-> FALSE, cost |-> ic.base, dynamic |-> TRUE,
              overflowed |-> FALSE]

ScanNew ==
    [counter |-> begin_control_block(CounterNew, 0, FALSE),
     last_const |-> NoConst,
     liniear_cost_instructions |-> {}]

\* the scanner opening a metered block of its own at a `block`, as it does
\* at `if` and `loop`
scan_instruction_BlockStarts(s, r, instruction, cursor) ==
    LET sc == static_cost(r, instruction, s.last_const)
        c0 == [s.counter EXCEPT !.overflowed = @ \/ sc.overflowed]
        lin == IF sc.dynamic
               THEN s.liniear_cost_instructions \cup {instruction}
               ELSE s.liniear_cost_instructions
        inc == increment(c0, sc.cost)
        n == Len(inc.stack)
        active_index == n - 1
        op == instruction.op
        labels == IF op = "BrTable" THEN <<instruction.a>> \o instruction.table
                  ELSE <<instruction.a>>
        c1 == IF op = "Block" THEN begin_control_block(inc, cursor + 1, FALSE)
              ELSE IF op = "If" THEN begin_control_block(inc, cursor + 1, FALSE)
              ELSE IF op = "Loop" THEN begin_control_block(inc, cursor + 1, TRUE)
              ELSE IF op = "End" THEN finalize_control_block(c0, cursor)
              ELSE IF op = "Else" THEN finalize_metered_block(c0, cursor)
              ELSE IF op \in {"Br", "BrIf", "BrTable"}
                THEN (IF inc.failed THEN inc
                      ELSE IF \E k \in 1..Len(labels) : labels[k] > active_index
                      THEN Fail(inc)
                      ELSE branch(inc, cursor,
                                  [k \in 1..Len(labels) |-> active_index - labels[k]]))
              ELSE IF op = "Return" THEN branch(inc, cursor, <<0>>)
              ELSE inc
    IN  IF s.counter.failed THEN s
        ELSE IF sc.err THEN [s EXCEPT !.counter = Fail(s.counter)]
        ELSE [counter |-> c1,
              last_const |-> IF op = "I32Const" THEN SomeConst(instruction.a)
                             ELSE NoConst,
              liniear_cost_instructions |-> lin]

\* the scanner opening an `if` the way it opens a `block`: the then-arm
\* continues the metered block that holds the `if`
scan_instruction_IfMerges(s, r, instruction, cursor) ==
    LET sc == static_cost(r, instruction, s.last_const)
        c0 == [s.counter EXCEPT !.overflowed = @ \/ sc.overflowed]
        lin == IF sc.dynamic
               THEN s.liniear_cost_instructions \cup {instruction}
               ELSE s.liniear_cost_instructions
        inc == increment(c0, sc.cost)
        n == Len(inc.stack)
        active_index == n - 1
        op == instruction.op
        labels == IF op = "BrTable" THEN <<instruction.a>> \o instruction.table
                  ELSE <<instruction.a>>
        c1 == IF op \in {"Block", "If"}
                THEN (IF inc.failed THEN inc
                      ELSE begin_control_block(
                             inc, inc.stack[n].active_metered_block.start_pos, FALSE))
              ELSE IF op = "Loop" THEN begin_control_block(inc, cursor + 1, TRUE)
              ELSE IF op = "End" THEN finalize_control_block(c0, cursor)
              ELSE IF op = "Else" THEN finalize_metered_block(c0, cursor)
              ELSE IF op \in {"Br", "BrIf", "BrTable"}
                THEN (IF inc.failed THEN inc
                      ELSE IF \E k \in 1..Len(labels) : labels[k] > active_index
                      THEN Fail(inc)
                      ELSE branch(inc, cursor,
                                  [k \in 1..Len(labels) |-> active_index - labels[k]]))
              ELSE IF op = "Return" THEN branch(inc, cursor, <<0>>)
              ELSE inc
    IN  IF s.counter.failed THEN s
        ELSE IF sc.err THEN [s EXCEPT !.counter = Fail(s.counter)]
        ELSE [counter |-> c1,
              last_const |-> IF op = "I32Const" THEN SomeConst(instruction.a)
                             ELSE NoConst,
              liniear_cost_instructions |-> lin]

\* one iteration of `for cursor in 0..instructions.elements().len()`
scan_instruction(s, r, instruction, cursor) ==
    LET sc == static_cost(r, instruction, s.last_const)
        c0 == [s.counter EXCEPT !.overflowed = @ \/ sc.overflowed]
        lin == IF sc.dynamic
               THEN s.liniear_cost_instructions \cup {instruction}
               ELSE s.liniear_cost_instructions
        inc == increment(c0, sc.cost)
        n == Len(inc.stack)
        active_index == n - 1
        op == instruction.op
        labels == IF op = "BrTable" THEN <<instruction.a>> \o instruction.table
                  ELSE <<instruction.a>>
        c1 == IF op = "Block"
                THEN (IF inc.failed THEN inc
                      ELSE begin_control_block(
                             inc, inc.stack[n].active_metered_block.start_pos, FALSE))
              ELSE IF op = "If" THEN begin_control_block(inc, cursor + 1, FALSE)
              ELSE IF op = "Loop" THEN begin_control_block(inc, cursor + 1, TRUE)
              ELSE IF op = "End" THEN finalize_control_block(c0, cursor)
              ELSE IF op = "Else" THEN finalize_metered_block(c0, cursor)
              ELSE IF op \in {"Br", "BrIf", "BrTable"}
                THEN (IF inc.failed THEN inc
                      ELSE IF \E k \in 1..Len(labels) : labels[k] > active_index
                      THEN Fail(inc)
                      ELSE branch(inc, cursor,
                                  [k \in 1..Len(labels) |-> active_index - labels[k]]))
              ELSE IF op = "Return" THEN branch(inc, cursor, <<0>>)
              ELSE inc
    IN  IF s.counter.failed THEN s
        ELSE IF sc.err THEN [s EXCEPT !.counter = Fail(s.counter)]
        ELSE [counter |-> c1,
              last_const |-> IF op = "I32Const" THEN SomeConst(instruction.a)
                             ELSE NoConst,
              liniear_cost_instructions |-> lin]

RECURSIVE scan_from(_, _, _, _)
scan_from(s, r, instrs, cursor) ==
    IF cursor >= Len(instrs) \/ s.counter.failed THEN s
    ELSE scan_from(scan_instruction(s, r, instrs[cursor + 1], cursor),
                   r, instrs, cursor + 1)

\* the finalized blocks left in the order they were finalized
sort_by_start_pos_Unsorted(blocks) == blocks

\* sort_unstable_by_key(|block| block.start_pos)
RECURSIVE sort_by_start_pos(_)
sort_by_start_pos(blocks) ==
    IF blocks = <<>> THEN <<>>
    ELSE LET least == CHOOSE i \in 1..Len(blocks) :
                        \A j \in 1..Len(blocks) :
                            \/ blocks[i].start_pos < blocks[j].start_pos
                            \/ (blocks[i].start_pos = blocks[j].start_pos /\ i <= j)
         IN  <<blocks[least]>> \o
             sort_by_start_pos(SubSeq(blocks, 1, least - 1)
                               \o SubSeq(blocks, least + 1, Len(blocks)))

\* what determine_metered_blocks returns when the scan ends in state s:
\* Err, or the finalized blocks sorted and liniear_cost_instructions
metered_blocks(s) ==
    [err |-> s.counter.failed,
     overflowed |-> s.counter.overflowed,
     blocks |-> IF s.counter.failed THEN <<>>
                ELSE sort_by_start_pos(s.counter.finalized_blocks),
     dynamic_instrs |-> IF s.counter.failed THEN {}
                        ELSE s.liniear_cost_instructions]

determine_metered_blocks(instrs, r) ==
    metered_blocks(scan_from(ScanNew, r, instrs, 0))

(***************************************************************************)
(* insert_metering_calls and inject_counter.                               *)
(***************************************************************************)
RECURSIVE insert_from(_, _, _, _, _)
insert_from(original_instrs, blocks, gas_func, original_pos, new) ==
    IF original_pos >= Len(original_instrs)
    THEN [err |-> blocks /= <<>>, instrs |-> new]
    ELSE LET instr == original_instrs[original_pos + 1]
             used_block == blocks /= <<>> /\ Head(blocks).start_pos = original_pos
         IN  IF used_block
             THEN insert_from(original_instrs, Tail(blocks), gas_func,
                              original_pos + 1,
                              new \o <<I64Const(U64AsI64(Head(blocks).cost)),
                                       Call(gas_func), instr>>)
             ELSE insert_from(original_instrs, blocks, gas_func,
                              original_pos + 1, Append(new, instr))

insert_metering_calls(instrs, blocks, gas_func) ==
    insert_from(instrs, blocks, gas_func, 0, <<>>)

\* What inject_counter does to `instructions`, and what it returns.  The
\* body is replaced by insert_metering_calls even when that returns Err.
\* `if insert_metering_calls(..).is_ok() { Ok(dyn_instrs) } else { Err(()) }`
counter_inserted(d, ins) ==
    [err |-> ins.err, overflowed |-> d.overflowed, instrs |-> ins.instrs,
     dynamic_instrs |-> IF ins.err THEN {} ELSE d.dynamic_instrs]

\* inject_counter after determine_metered_blocks has returned d
counter_of_blocks(instrs, d, gas_func) ==
    IF d.err
    THEN [err |-> TRUE, overflowed |-> d.overflowed, instrs |-> instrs,
          dynamic_instrs |-> {}]
    ELSE counter_inserted(d, insert_metering_calls(instrs, d.blocks, gas_func))

inject_counter(instrs, r, gas_func) ==
    counter_of_blocks(instrs, determine_metered_blocks(instrs, r), gas_func)

(***************************************************************************)
(* The function bodies of Spec: every well-nested instruction sequence     *)
(* within the bounds, closed by the `end` of the function.                 *)
(***************************************************************************)
I32Vals == {-1, 2}

PlainInstrs == {Nop, GrowMemory(0)} \cup {I32Const(v) : v \in I32Vals}

\* kinds of the control blocks open at the end of a prefix of a body,
\* outermost first ("F" the function, "B" block, "L" loop, "I" then-arm,
\* "E" else-arm); empty once the function's `end` has been read
RECURSIVE Frames(_)
Frames(body) ==
    IF body = <<>> THEN <<"F">>
    ELSE LET f == Frames(SubSeq(body, 1, Len(body) - 1))
             op == body[Len(body)].op
             pop == SubSeq(f, 1, Len(f) - 1)
         IN  IF op = "Block" THEN Append(f, "B")
             ELSE IF op = "Loop" THEN Append(f, "L")
             ELSE IF op = "If" THEN Append(f, "I")
             ELSE IF op = "Else" THEN Append(pop, "E")
             ELSE IF op = "End" THEN pop
             ELSE f

CountOps(body, ops) == Cardinality({k \in 1..Len(body) : body[k].op \in ops})

\* the instructions that may follow a prefix of a well-nested body
NextInstrs(body) ==
    LET f == Frames(body)
        d == Len(f) - 1
        room == Len(body) + Len(f) < MaxLen
    IN  {End}
        \cup (IF f[Len(f)] = "I" THEN {Else} ELSE {})
        \cup (IF room THEN PlainInstrs ELSE {})
        \cup (IF Len(body) + Len(f) + 1 < MaxLen
                 /\ CountOps(body, {"Block", "Loop", "If"}) < MaxCtl
              THEN {Block, Loop, If} ELSE {})
        \cup (IF room /\ CountOps(body, {"Br", "BrIf", "BrTable", "Return"}) < MaxBr
              THEN {Return}
                   \cup {Br(l) : l \in 0..d}
                   \cup {BrIf(l) : l \in 0..d}
                   \cup {BrTable(l, <<t>>) : l, t \in 0..d}
              ELSE {})

\* the function index inject passes to inject_counter as gas_func
GasFunc == 1

RuleSets == {ConstantCostRules(1, 3)}

(***************************************************************************)
(* Execution of an instrumented body (the Wasm semantics of structured     *)
(* control flow; every conditional is resolved nondeterministically).      *)
(***************************************************************************)
Openers == {"Block", "Loop", "If"}

\* position of the `end` that closes the block opened just before position q
RECURSIVE find_end(_, _, _)
find_end(instrs, q, depth) ==
    IF q > Len(instrs) THEN 0
    ELSE IF instrs[q].op \in Openers THEN find_end(instrs, q + 1, depth + 1)
    ELSE IF instrs[q].op = "End"
         THEN (IF depth = 0 THEN q ELSE find_end(instrs, q + 1, depth - 1))
         ELSE find_end(instrs, q + 1, depth)

MatchingEnd(instrs, p) == find_end(instrs, p + 1, 0)

\* position of the `else` of the `if` at p, 0 if it has none
RECURSIVE find_else(_, _, _)
find_else(instrs, q, depth) ==
    IF q > Len(instrs) THEN 0
    ELSE IF instrs[q].op \in Openers THEN find_else(instrs, q + 1, depth + 1)
    ELSE IF instrs[q].op = "End"
         THEN (IF depth = 0 THEN 0 ELSE find_else(instrs, q + 1, depth - 1))
         ELSE IF instrs[q].op = "Else" /\ depth = 0 THEN q
         ELSE find_else(instrs, q + 1, depth)

MatchingElse(instrs, p) == find_else(instrs, p + 1, 0)

\* positions of the openers of the control blocks that enclose position k,
\* outermost first
RECURSIVE Enclosing(_, _)
Enclosing(instrs, k) ==
    IF k <= 1 THEN <<>>
    ELSE LET e == Enclosing(instrs, k - 1)
             op == instrs[k - 1].op
         IN  IF op \in Openers THEN Append(e, k - 1)
             ELSE IF op = "End" /\ e /= <<>> THEN SubSeq(e, 1, Len(e) - 1)
             ELSE e

\* where a branch with this label, executed at position k, continues:
\* 0 stands for leaving the function
BranchTarget(instrs, k, label) ==
    LET e == Enclosing(instrs, k)
    IN  IF label >= Len(e) THEN 0
        ELSE LET p == e[Len(e) - label]
             IN  IF instrs[p].op = "Loop" THEN p + 1
                 ELSE MatchingEnd(instrs, p) + 1

\* a charge: `i64.const k; call gas_func`
IsCharge(instrs, k) ==
    /\ k + 1 <= Len(instrs)
    /\ instrs[k].op = "I64Const"
    /\ instrs[k + 1] = Call(GasFunc)

\* 0-based position, in the original body, of the instruction at position k
\* of the instrumented body
RECURSIVE OrigPos(_, _)
OrigPos(instrs, k) ==
    IF k <= 1 THEN 0
    ELSE IF IsCharge(instrs, k - 1) THEN OrigPos(instrs, k - 1) - 1
    ELSE OrigPos(instrs, k - 1) + 1

\* what the scanner adds to a metered block for the instruction at 0-based
\* position k of a body: nothing for `end` and `else`, otherwise the cost
\* computed from the rules and the preceding instruction
CountedCost(instrs, r, k) ==
    LET i == instrs[k + 1]
        lc == IF k > 0 /\ instrs[k].op = "I32Const" THEN SomeConst(instrs[k].a)
              ELSE NoConst
    IN  IF i.op \in {"End", "Else"} THEN 0 ELSE static_cost(r, i, lc).cost

Cur == new_instrs[ip]

CurCost == CountedCost(instructions, rules, OrigPos(new_instrs, ip))

\* the gas function is not running
NoFrame == [pos |-> 0, local |-> 0, stack |-> <<>>]

GasVarsIdle == UNCHANGED <<gas_counter, budget, opstack, gasframe>>

StackVarsIdle == UNCHANGED <<frames, globals>>

InjectVarsIdle == UNCHANGED <<module, result>> /\ GasVarsIdle /\ StackVarsIdle

Init ==
    /\ pc = "build"
    /\ rules \in RuleSets
    /\ instructions = <<>>
    /\ new_instrs = <<>>
    /\ dyn_instrs = {}
    /\ ip = 0
    /\ charged = 0
    /\ spent = 0
    /\ jumps = 0
    /\ module = <<>>
    /\ result = <<>>
    /\ gas_counter = 0
    /\ budget = 0
    /\ opstack = <<>>
    /\ gasframe = NoFrame
    /\ frames = <<>>
    /\ globals = <<>>

\* the caller assembles the function body, one instruction at a time; the
\* body is complete with the `end` of the function
Emit ==
    /\ pc = "build"
    /\ \E i \in NextInstrs(instructions) :
          /\ instructions' = Append(instructions, i)
          /\ pc' = IF Frames(instructions') = <<>> THEN "start" ELSE "build"
    /\ UNCHANGED <<rules, new_instrs, dyn_instrs, ip, charged, spent, jumps>>
    /\ InjectVarsIdle

\* inject_counter returns (a build without overflow checks, or no overflow)
InjectCounter ==
    /\ pc = "start"
    /\ \E r \in {inject_counter(instructions, rules, GasFunc)} :
          /\ pc' = IF r.err THEN "failed" ELSE "run"
          /\ new_instrs' = r.instrs
          /\ dyn_instrs' = r.dynamic_instrs
          /\ ip' = IF r.err THEN 0 ELSE 1
    /\ UNCHANGED <<rules, instructions, charged, spent, jumps>>
    /\ InjectVarsIdle

\* inject_counter panics (a build with overflow checks) at an overflow of
\* arithmetic the source does not check
InjectCounterPanic ==
    /\ pc = "start"
    /\ inject_counter(instructions, rules, GasFunc).overflowed
    /\ pc' = "panicked"
    /\ UNCHANGED <<rules, instructions, new_instrs, dyn_instrs, ip, charged,
                   spent, jumps>>
    /\ InjectVarsIdle

ExecFrame == UNCHANGED <<rules, instructions, new_instrs, dyn_instrs>> /\ InjectVarsIdle

\* continue at position k; 0 leaves the function
Goto(k) ==
    IF k = 0 \/ k > Len(new_instrs)
    THEN pc' = "exited" /\ ip' = ip
    ELSE pc' = "run" /\ ip' = k

\* follow a branch: a branch to a loop goes backward
Jump(k) ==
    IF k /= 0 /\ k <= ip
    THEN jumps < MaxJumps /\ jumps' = jumps + 1 /\ Goto(k)
    ELSE jumps' = jumps /\ Goto(k)

\* `i64.const k; call gas_func`
ExecCharge ==
    /\ pc = "run"
    /\ IsCharge(new_instrs, ip)
    /\ charged' = charged + Cur.a
    /\ Goto(ip + 2)
    /\ UNCHANGED <<spent, jumps>>
    /\ ExecFrame

\* an instruction that falls through: nop, i32.const, memory.grow, block, loop
ExecPlain ==
    /\ pc = "run"
    /\ ~IsCharge(new_instrs, ip)
    /\ Cur.op \in {"Nop", "I32Const", "GrowMemory", "Block", "Loop"}
    /\ spent' = spent + CurCost
    /\ Goto(ip + 1)
    /\ UNCHANGED <<charged, jumps>>
    /\ ExecFrame

ExecIf ==
    /\ pc = "run"
    /\ Cur.op = "If"
    /\ spent' = spent + CurCost
    /\ \E cond \in BOOLEAN :
          LET else_pos == MatchingElse(new_instrs, ip)
          IN  Goto(IF cond THEN ip + 1
                   ELSE IF else_pos /= 0 THEN else_pos + 1
                   ELSE MatchingEnd(new_instrs, ip) + 1)
    /\ UNCHANGED <<charged, jumps>>
    /\ ExecFrame

\* the end of a then-arm: continue after the `end` of the `if`
ExecElse ==
    /\ pc = "run"
    /\ Cur.op = "Else"
    /\ LET e == Enclosing(new_instrs, ip)
       IN  Goto(MatchingEnd(new_instrs, e[Len(e)]) + 1)
    /\ UNCHANGED <<charged, spent, jumps>>
    /\ ExecFrame

ExecEnd ==
    /\ pc = "run"
    /\ Cur.op = "End"
    /\ Goto(IF Enclosing(new_instrs, ip) = <<>> THEN 0 ELSE ip + 1)
    /\ UNCHANGED <<charged, spent, jumps>>
    /\ ExecFrame

ExecBr ==
    /\ pc = "run"
    /\ Cur.op = "Br"
    /\ spent' = spent + CurCost
    /\ Jump(BranchTarget(new_instrs, ip, Cur.a))
    /\ UNCHANGED charged
    /\ ExecFrame

ExecBrIf ==
    /\ pc = "run"
    /\ Cur.op = "BrIf"
    /\ spent' = spent + CurCost
    /\ \E cond \in BOOLEAN :
          IF cond THEN Jump(BranchTarget(new_instrs, ip, Cur.a))
          ELSE jumps' = jumps /\ Goto(ip + 1)
    /\ UNCHANGED charged
    /\ ExecFrame

ExecBrTable ==
    /\ pc = "run"
    /\ Cur.op = "BrTable"
    /\ spent' = spent + CurCost
    /\ \E label \in {Cur.a} \cup {Cur.table[k] : k \in 1..Len(Cur.table)} :
          Jump(BranchTarget(new_instrs, ip, label))
    /\ UNCHANGED charged
    /\ ExecFrame

ExecReturn ==
    /\ pc = "run"
    /\ Cur.op = "Return"
    /\ spent' = spent + CurCost
    /\ Goto(0)
    /\ UNCHANGED <<charged, jumps>>
    /\ ExecFrame

Next ==
    \/ Emit
    \/ InjectCounter
    \/ InjectCounterPanic
    \/ ExecCharge
    \/ ExecPlain
    \/ ExecIf
    \/ ExecElse
    \/ ExecEnd
    \/ ExecBr
    \/ ExecBrIf
    \/ ExecBrTable
    \/ ExecReturn

Spec == Init /\ [][Next]_vars

(***************************************************************************)
(* SpecScan.  inject_counter on any instruction sequence: parity_wasm does *)
(* not validate a function body, so the scanner may be handed a sequence   *)
(* that is not well nested (an `else` outside an `if`, a missing or a      *)
(* surplus `end`, a branch label that is too large).                       *)
(***************************************************************************)
\* longest instruction sequence of SpecScan
MaxScanLen == 4

AnyInstrs ==
    PlainInstrs \cup {Block, Loop, If, Else, End, Return}
        \cup {Br(l) : l \in 0..1} \cup {BrIf(l) : l \in 0..1}
        \cup {BrTable(0, <<1>>)}

\* the caller appends any instruction, or hands the sequence over as it is
EmitAny ==
    /\ pc = "build"
    /\ \/ /\ Len(instructions) < MaxScanLen
          /\ \E i \in AnyInstrs : instructions' = Append(instructions, i)
          /\ pc' = "build"
       \/ pc' = "start" /\ UNCHANGED instructions
    /\ UNCHANGED <<rules, new_instrs, dyn_instrs, ip, charged, spent, jumps>>
    /\ InjectVarsIdle

NextScan ==
    \/ EmitAny
    \/ InjectCounter
    \/ InjectCounterPanic

SpecScan == Init /\ [][NextScan]_vars

(***************************************************************************)
(* Modules.  A module is what inject reads and rewrites: the order of its  *)
(* sections, its imports, the bodies of the functions it defines, its      *)
(* exports (kind and index) and the offset initializers of                 *)
(* its element and data segments (<<>> for a segment without offset).      *)
(* The function index space is the imported functions followed by the      *)
(* defined ones, the global index space the imported globals followed by   *)
(* the defined ones.                                                       *)
(***************************************************************************)
GAS_COUNTER_NAME == "gas_counter"

Import(kind, mod, field, mutable, ty) ==
    [kind |-> kind, module |-> mod, field |-> field, mutable |-> mutable, ty |-> ty]

GasImport(gas_module_name) ==
    Import("Global", gas_module_name, GAS_COUNTER_NAME, TRUE, "i64")

Export(kind, index) == [kind |-> kind, index |-> index]

RECURSIVE CountSeq(_, _)
CountSeq(seq, kind) ==
    IF seq = <<>> THEN 0
    ELSE (IF Head(seq).kind = kind THEN 1 ELSE 0) + CountSeq(Tail(seq), kind)

\* module.import_count(ImportCountType::Global)
import_count_global(m) == CountSeq(m.imports, "Global")

\* module.functions_space()
functions_space(m) == CountSeq(m.imports, "Func") + Len(m.bodies)

check_offset_code(code) ==
    Len(code) = 2 /\ code[1].op = "I32Const" /\ code[2] = End

(***************************************************************************)
(* The module builder, and the values of Result<elements::Module, ()>.      *)
(***************************************************************************)
\* the order in which the module builder emits the sections
BuilderSections == <<"Import", "Export", "Element", "Code", "Data">>

\* builder::from_module(module). .. .build()
build(m) == [m EXCEPT !.sections = BuilderSections]

Ok(m) == [tag |-> "Ok", has_module |-> TRUE, module |-> m]

\* Err(()): the error value carries nothing
NoModule ==
    [sections |-> <<>>, imports |-> <<>>, bodies |-> <<>>, exports |-> <<>>,
     elements |-> <<>>, data |-> <<>>]

Err == [tag |-> "Err", has_module |-> FALSE, module |-> NoModule]

Panic == [tag |-> "Panic", has_module |-> FALSE, module |-> NoModule]

(***************************************************************************)
(* inject_dynamic_counters, add_gas_counter, add_dynamic_counters.         *)
(* dyn_funcs, a HashMap<Instruction, u32>, is a function from the set of   *)
(* its keys.                                                               *)
(***************************************************************************)
inject_dynamic_counters(instrs, dyn_funcs) ==
    [k \in 1..Len(instrs) |->
        IF instrs[k] \in DOMAIN dyn_funcs THEN Call(dyn_funcs[instrs[k]])
        ELSE instrs[k]]

GasCounterBody(gas_global) ==
    <<GetGlobal(gas_global), Ins("GetLocal", 0), Ins("I64Sub", 0),
      SetGlobal(gas_global), GetGlobal(gas_global), I64Const(0),
      Ins("I64LtS", 0), If, Unreachable, End, End>>

add_gas_counter(m, gas_global) ==
    build([m EXCEPT !.bodies = Append(@, GasCounterBody(gas_global))])

instruction_signature(instr) ==
    IF instr.op = "GrowMemory"
    THEN [err |-> FALSE, params |-> <<"i32">>, rets |-> <<"i32">>]
    ELSE [err |-> TRUE, params |-> <<>>, rets |-> <<>>]

DynamicCounterBody(instr, cost, gas_func, params) ==
    [i \in 1..Len(params) |-> Ins("GetLocal", i - 1)]
    \o <<Ins("GetLocal", Len(params) - 1), Ins("I64ExtendUI32", 0),
         I64Const(U64AsI64(cost)), Ins("I64Mul", 0), Call(gas_func), instr, End>>

\* the loop over funcs_sorted, from the entry with the least index
RECURSIVE push_dynamic_counters(_, _, _, _)
push_dynamic_counters(m, r, gas_func, dyn_funcs) ==
    IF DOMAIN dyn_funcs = {} THEN Ok(build(m))
    ELSE
      LET instr == CHOOSE i \in DOMAIN dyn_funcs :
                      \A j \in DOMAIN dyn_funcs : dyn_funcs[i] <= dyn_funcs[j]
          ic == instruction_cost(r, instr)
          sig == instruction_signature(instr)
          rest == [i \in DOMAIN dyn_funcs \ {instr} |-> dyn_funcs[i]]
      IN  IF ic.kind /= "Linear" \/ sig.err THEN Err
          ELSE push_dynamic_counters(
                 [m EXCEPT !.bodies =
                     Append(@, DynamicCounterBody(instr, ic.per, gas_func, sig.params))],
                 r, gas_func, rest)

add_dynamic_counters(m, r, gas_func, dyn_funcs) ==
    push_dynamic_counters(m, r, gas_func, dyn_funcs)

(***************************************************************************)
(* inject.  The locals of the loop over the sections are kept in a record: *)
(* the module being rewritten, next_dyncnt_func, dyn_funcs, error, whether *)
(* an unchecked operation overflowed, and whether the loop over the        *)
(* sections was left by `break`.                                           *)
(***************************************************************************)
\* ShiftGlobals leaving the reference to the global at gas_global as it is
ShiftGlobals_Above(instrs, gas_global) ==
    [k \in 1..Len(instrs) |->
        IF instrs[k].op \in {"GetGlobal", "SetGlobal"} /\ instrs[k].a > gas_global
        THEN [instrs[k] EXCEPT !.a = @ + 1]
        ELSE instrs[k]]

ShiftGlobals(instrs, gas_global) ==
    [k \in 1..Len(instrs) |->
        IF instrs[k].op \in {"GetGlobal", "SetGlobal"} /\ instrs[k].a >= gas_global
        THEN [instrs[k] EXCEPT !.a = @ + 1]
        ELSE instrs[k]]

\* assign_dyn_funcs using next_dyncnt_func before it is incremented
RECURSIVE assign_dyn_funcs_PostIncrement(_, _, _)
assign_dyn_funcs_PostIncrement(st, dyn, hash_order) ==
    IF hash_order = <<>> THEN st
    ELSE LET instr == Head(hash_order)
         IN  IF instr \in dyn /\ instr \notin DOMAIN st.dyn_funcs
             THEN assign_dyn_funcs_PostIncrement(
                    [st EXCEPT !.next_dyncnt_func = @ + 1,
                               !.dyn_funcs =
                                   [i \in DOMAIN @ \cup {instr} |->
                                       IF i = instr THEN st.next_dyncnt_func
                                       ELSE @[i]]],
                    dyn, Tail(hash_order))
             ELSE assign_dyn_funcs_PostIncrement(st, dyn, Tail(hash_order))

\* `for instr in dyn_instrs { dyn_funcs.entry(instr).or_insert_with(..) }`:
\* the HashSet is iterated in the order hash_order gives its elements
RECURSIVE assign_dyn_funcs(_, _, _)
assign_dyn_funcs(st, dyn, hash_order) ==
    IF hash_order = <<>> THEN st
    ELSE LET instr == Head(hash_order)
         IN  IF instr \in dyn /\ instr \notin DOMAIN st.dyn_funcs
             THEN assign_dyn_funcs(
                    [st EXCEPT !.next_dyncnt_func = @ + 1,
                               !.dyn_funcs =
                                   [i \in DOMAIN @ \cup {instr} |->
                                       IF i = instr THEN st.next_dyncnt_func + 1
                                       ELSE @[i]]],
                    dyn, Tail(hash_order))
             ELSE assign_dyn_funcs(st, dyn, Tail(hash_order))

RECURSIVE inject_bodies(_, _, _, _, _, _)

\* `inject_dynamic_counters(func_body.code_mut(), &mut dyn_funcs)`
rewrite_body(st, j, instrs) ==
    [st EXCEPT !.m.bodies[j] = inject_dynamic_counters(instrs, st.dyn_funcs)]

\* `match inject_counter(..)` for body j, ic being what inject_counter
\* returned, and the rest of the loop over the bodies
inject_body(st, r, gas_global, gas_func, hash_order, j, ic) ==
    IF ic.err
    THEN [st EXCEPT !.m.bodies[j] = ic.instrs, !.error = TRUE,
                    !.overflowed = @ \/ ic.overflowed]
    ELSE inject_bodies(
           rewrite_body(
             assign_dyn_funcs([st EXCEPT !.overflowed = @ \/ ic.overflowed],
                              ic.dynamic_instrs, hash_order),
             j, ic.instrs),
           r, gas_global, gas_func, hash_order, j + 1)

\* the loop over the bodies of the code section, from body j
inject_bodies(st, r, gas_global, gas_func, hash_order, j) ==
    IF j > Len(st.m.bodies) THEN st
    ELSE inject_body(st, r, gas_global, gas_func, hash_order, j,
                     inject_counter(ShiftGlobals(st.m.bodies[j], gas_global),
                                    r, gas_func))

ShiftExports(exports, gas_global) ==
    [k \in 1..Len(exports) |->
        IF exports[k].kind = "Global" /\ exports[k].index >= gas_global
        THEN [exports[k] EXCEPT !.index = @ + 1]
        ELSE exports[k]]

IsGasGlobal(p, gas_module_name) ==
    /\ p.kind = "Global"
    /\ p.module = gas_module_name
    /\ p.field = GAS_COUNTER_NAME
    /\ p.mutable

CountGasGlobals(imports, gas_module_name) ==
    Cardinality({k \in 1..Len(imports) : IsGasGlobal(imports[k], gas_module_name)})

BadOffset(segments) ==
    \E k \in 1..Len(segments) :
        segments[k] /= <<>> /\ ~check_offset_code(segments[k])

\* inject_section refusing only a module without gas global import
inject_section_AtLeastOne(st, section, r, gas_module_name, gas_global, gas_func, hash_order) ==
    IF section = "Code"
    THEN inject_bodies(st, r, gas_global, gas_func, hash_order, 1)
    ELSE IF section = "Export"
    THEN [st EXCEPT !.m.exports = ShiftExports(@, gas_global)]
    ELSE IF section = "Import"
    THEN (IF CountGasGlobals(st.m.imports, gas_module_name) < 1
          THEN [st EXCEPT !.error = TRUE, !.broke = TRUE]
          ELSE st)
    ELSE IF section = "Element"
    THEN (IF BadOffset(st.m.elements) THEN [st EXCEPT !.error = TRUE] ELSE st)
    ELSE IF section = "Data"
    THEN (IF BadOffset(st.m.data) THEN [st EXCEPT !.error = TRUE] ELSE st)
    ELSE st

\* one arm of `match section`
inject_section(st, section, r, gas_module_name, gas_global, gas_func, hash_order) ==
    IF section = "Code"
    THEN inject_bodies(st, r, gas_global, gas_func, hash_order, 1)
    ELSE IF section = "Export"
    THEN [st EXCEPT !.m.exports = ShiftExports(@, gas_global)]
    ELSE IF section = "Import"
    THEN (IF CountGasGlobals(st.m.imports, gas_module_name) /= 1
          THEN [st EXCEPT !.error = TRUE, !.broke = TRUE]
          ELSE st)
    ELSE IF section = "Element"
    THEN (IF BadOffset(st.m.elements) THEN [st EXCEPT !.error = TRUE] ELSE st)
    ELSE IF section = "Data"
    THEN (IF BadOffset(st.m.data) THEN [st EXCEPT !.error = TRUE] ELSE st)
    ELSE st

RECURSIVE inject_sections(_, _, _, _, _, _, _)
inject_sections(st, sections, r, gas_module_name, gas_global, gas_func, hash_order) ==
    IF sections = <<>> \/ st.broke THEN st
    ELSE inject_sections(
           inject_section(st, Head(sections), r, gas_module_name, gas_global,
                          gas_func, hash_order),
           Tail(sections), r, gas_module_name, gas_global, gas_func, hash_order)

\* `if error { return Err(()) }` and what follows it
inject_return(st, r, gas_global, gas_func) ==
    [overflowed |-> st.overflowed,
     ret |-> IF st.error THEN Err
             ELSE IF DOMAIN st.dyn_funcs /= {}
             THEN add_dynamic_counters(add_gas_counter(st.m, gas_global), r,
                                       gas_func, st.dyn_funcs)
             ELSE Ok(add_gas_counter(st.m, gas_global))]

\* inject from `let mut next_dyncnt_func = total_func` on
inject_indexed(m, r, gas_module_name, gas_global, gas_func, hash_order) ==
    inject_return(
      inject_sections([m |-> m, next_dyncnt_func |-> gas_func, dyn_funcs |-> <<>>,
                       error |-> FALSE, overflowed |-> FALSE, broke |-> FALSE],
                      m.sections, r, gas_module_name, gas_global, gas_func,
                      hash_order),
      r, gas_global, gas_func)

\* inject once the gas import is pushed and the module rebuilt
inject_built(m, r, gas_module_name, hash_order) ==
    inject_indexed(m, r, gas_module_name, import_count_global(m) - 1,
                   functions_space(m), hash_order)

\* What inject returns; `overflowed` tells that a build with overflow
\* checks panics instead.
inject(m0, r, gas_module_name, hash_order) ==
    inject_built(build([m0 EXCEPT !.imports = Append(@, GasImport(gas_module_name))]),
                 r, gas_module_name, hash_order)

(***************************************************************************)
(* SpecInject: inject is run, more than once, on every module within the   *)
(* bounds.                                                                 *)
(***************************************************************************)
\* most imports of a module
MaxImports == 1
\* most functions a module defines
MaxFuncs == 2
\* most instructions of a function body, its `end` not counted
MaxBodyLen == 2
\* most exports, most element segments and most data segments of a module
MaxEntries == 1
\* most imports, instructions, exports and segments of a module together
MaxItems == 3
\* number of runs of inject on the same module
MaxRuns == 2

GasModuleName == "env"

ImportEntries ==
    {Import("Func", "env", "f", FALSE, "func"),
     Import("Global", "env", "g", FALSE, "i32"),
     Import("Global", "env", GAS_COUNTER_NAME, TRUE, "i64"),
     Import("Global", "env", GAS_COUNTER_NAME, TRUE, "i32"),
     Import("Global", "env", GAS_COUNTER_NAME, FALSE, "i64"),
     Import("Global", "other", GAS_COUNTER_NAME, TRUE, "i64")}

InjectAlphabet ==
    {GetGlobal(0), GetGlobal(1), SetGlobal(1), Call(0), I32Const(2),
     GrowMemory(0), GrowMemory(1)}

ExportEntries == {Export("Global", 0), Export("Global", 1), Export("Func", 0)}

\* offset initializers: `i32.const 0; end`, `get_global 0; end`, none
OffsetCodes == {<<I32Const(0), End>>, <<GetGlobal(0), End>>, <<>>}

\* the orders of the sections of an input module: the order of the binary
\* format and its reverse
SectionOrders ==
    {<<"Import", "Export", "Element", "Code", "Data">>,
     <<"Data", "Code", "Element", "Export", "Import">>}

RECURSIVE SumLen(_)
SumLen(seqs) == IF seqs = <<>> THEN 0 ELSE Len(Head(seqs)) - 1 + SumLen(Tail(seqs))

ModuleSize(m) ==
    Len(m.imports) + SumLen(m.bodies) + Len(m.exports) + Len(m.elements)
        + Len(m.data)

\* ConstantCostRules, and rule sets that in addition reject one instruction
RejectedInstrs == {GetGlobal(1), GrowMemory(1)}

InjectRuleSets ==
    {ConstantCostRules(1, 3)}
    \cup {[ConstantCostRules(1, 3) EXCEPT !.forbidden = {i}] : i \in RejectedInstrs}

\* the instructions the rule sets give a Linear cost
DynUniverse == {i \in InjectAlphabet : i.op = "GrowMemory"}

\* the orders in which a HashSet may yield them
HashOrders ==
    {o \in [1..Cardinality(DynUniverse) -> DynUniverse] :
        \A i, j \in DOMAIN o : i /= j => o[i] /= o[j]}

SpecVarsIdle ==
    /\ UNCHANGED <<instructions, new_instrs, dyn_instrs, ip, charged, spent, jumps>>
    /\ GasVarsIdle
    /\ StackVarsIdle

InitInject ==
    /\ pc = "inject"
    /\ rules \in InjectRuleSets
    /\ \E sections \in SectionOrders :
          module = [NoModule EXCEPT !.sections = sections]
    /\ result = <<>>
    /\ instructions = <<>>
    /\ new_instrs = <<>>
    /\ dyn_instrs = {}
    /\ ip = 0
    /\ charged = 0
    /\ spent = 0
    /\ jumps = 0
    /\ gas_counter = 0
    /\ budget = 0
    /\ opstack = <<>>
    /\ gasframe = NoFrame
    /\ frames = <<>>
    /\ globals = <<>>

\* the caller builds the module, one entry at a time, before the first run
Building == pc = "inject" /\ result = <<>> /\ ModuleSize(module) < MaxItems

BuildFrame == UNCHANGED <<pc, rules, result>> /\ SpecVarsIdle

PushImport ==
    /\ Building
    /\ Len(module.imports) < MaxImports
    /\ \E e \in ImportEntries : module' = [module EXCEPT !.imports = Append(@, e)]
    /\ BuildFrame

\* a new function, its body the `end` alone
PushFunction ==
    /\ pc = "inject" /\ result = <<>>
    /\ Len(module.bodies) < MaxFuncs
    /\ module' = [module EXCEPT !.bodies = Append(@, <<End>>)]
    /\ BuildFrame

\* one more instruction in the body of the last function
PushInstruction ==
    /\ Building
    /\ module.bodies /= <<>>
    /\ LET j == Len(module.bodies)
           body == module.bodies[j]
       IN  /\ Len(body) - 1 < MaxBodyLen
           /\ \E i \in InjectAlphabet :
                 module' = [module EXCEPT !.bodies[j] =
                               SubSeq(body, 1, Len(body) - 1) \o <<i, End>>]
    /\ BuildFrame

PushExport ==
    /\ Building
    /\ Len(module.exports) < MaxEntries
    /\ \E e \in ExportEntries : module' = [module EXCEPT !.exports = Append(@, e)]
    /\ BuildFrame

PushElement ==
    /\ Building
    /\ Len(module.elements) < MaxEntries
    /\ \E c \in OffsetCodes : module' = [module EXCEPT !.elements = Append(@, c)]
    /\ BuildFrame

PushData ==
    /\ Building
    /\ Len(module.data) < MaxEntries
    /\ \E c \in OffsetCodes : module' = [module EXCEPT !.data = Append(@, c)]
    /\ BuildFrame

\* one run of inject(module, rules, gas_module_name)
Inject ==
    /\ pc = "inject"
    /\ Len(result) < MaxRuns
    /\ \E hash_order \in HashOrders, overflow_checks \in BOOLEAN :
          \E r \in {inject(module, rules, GasModuleName, hash_order)} :
             result' = Append(result, IF r.overflowed /\ overflow_checks
                                      THEN Panic ELSE r.ret)
    /\ UNCHANGED <<pc, rules, module>>
    /\ SpecVarsIdle

NextInject ==
    \/ PushImport
    \/ PushFunction
    \/ PushInstruction
    \/ PushExport
    \/ PushElement
    \/ PushData
    \/ Inject



SpecInject == InitInject /\ [][NextInject]_vars

(***************************************************************************)
(* SpecGas: the gas function at work.  A body is metered by                *)
(* inject_counter under rules that give every instruction the cost         *)
(* instruction_cost, and is executed with the gas counter at a budget the  *)
(* host has set; the charge `i64.const k; call gas_func` runs the body     *)
(* add_gas_counter builds, one instruction at a time.                      *)
(***************************************************************************)
\* index of the gas counter global when it is the only imported global
GasGlobalIdx == 0

\* i64 arithmetic wraps
WrapI64(x) == ((x + I64Half) % U64Mod) - I64Half

GasBodies == {<<Nop, End>>, <<Nop, Nop, End>>}

GasRuleSets == {ConstantCostRules(ic, 0) : ic \in 0..U64Mod - 1}

\* the host sets the initial budget
GasBudgets == 0..I64Half - 1

InitGas ==
    /\ pc = "start"
    /\ rules \in GasRuleSets
    /\ instructions \in GasBodies
    /\ gas_counter \in GasBudgets
    /\ budget = 0
    /\ opstack = <<>>
    /\ gasframe = NoFrame
    /\ frames = <<>>
    /\ globals = <<>>
    /\ new_instrs = <<>>
    /\ dyn_instrs = {}
    /\ ip = 0
    /\ charged = 0
    /\ spent = 0
    /\ jumps = 0
    /\ module = <<>>
    /\ result = <<>>

CallerFrame ==
    /\ UNCHANGED <<rules, instructions, new_instrs, dyn_instrs, spent, jumps,
                   module, result>>
    /\ StackVarsIdle

\* `i64.const k` of a charge
ExecI64Const ==
    /\ pc = "run"
    /\ Cur.op = "I64Const"
    /\ opstack' = Append(opstack, Cur.a)
    /\ ip' = ip + 1
    /\ UNCHANGED <<pc, charged, gas_counter, budget, gasframe>>
    /\ CallerFrame

\* `call gas_func`: the amount is popped into parameter 0
ExecCallGas ==
    /\ pc = "run"
    /\ Cur = Call(GasFunc)
    /\ opstack /= <<>>
    /\ gasframe' = [pos |-> 1, local |-> opstack[Len(opstack)], stack |-> <<>>]
    /\ opstack' = SubSeq(opstack, 1, Len(opstack) - 1)
    /\ budget' = gas_counter
    /\ charged' = charged + opstack[Len(opstack)]
    /\ pc' = "gas"
    /\ UNCHANGED <<ip, gas_counter>>
    /\ CallerFrame

\* one instruction of the body add_gas_counter builds, executed in frame f
\* with the gas counter global at g: the frame and the global afterwards,
\* and whether the function trapped or returned
gas_step(f, g) ==
    LET body == GasCounterBody(GasGlobalIdx)
        i == body[f.pos]
        n == Len(f.stack)
        go(pos, stack, global) ==
            [frame |-> [f EXCEPT !.pos = pos, !.stack = stack],
             global |-> global, trapped |-> FALSE, returned |-> FALSE]
    IN  IF i.op = "GetGlobal" THEN go(f.pos + 1, Append(f.stack, g), g)
        ELSE IF i.op = "GetLocal" THEN go(f.pos + 1, Append(f.stack, f.local), g)
        ELSE IF i.op = "I64Const" THEN go(f.pos + 1, Append(f.stack, i.a), g)
        ELSE IF i.op = "I64Sub"
        THEN go(f.pos + 1,
                Append(SubSeq(f.stack, 1, n - 2),
                       WrapI64(f.stack[n - 1] - f.stack[n])), g)
        ELSE IF i.op = "SetGlobal"
        THEN go(f.pos + 1, SubSeq(f.stack, 1, n - 1), f.stack[n])
        ELSE IF i.op = "I64LtS"
        THEN go(f.pos + 1,
                Append(SubSeq(f.stack, 1, n - 2),
                       IF f.stack[n - 1] < f.stack[n] THEN 1 ELSE 0), g)
        ELSE IF i.op = "If"
        THEN go(IF f.stack[n] /= 0 THEN f.pos + 1
                ELSE MatchingEnd(body, f.pos) + 1,
                SubSeq(f.stack, 1, n - 1), g)
        ELSE IF i.op = "Unreachable"
        THEN [frame |-> f, global |-> g, trapped |-> TRUE, returned |-> FALSE]
        ELSE IF f.pos = Len(body)
        THEN [frame |-> NoFrame, global |-> g, trapped |-> FALSE,
              returned |-> TRUE]
        ELSE go(f.pos + 1, f.stack, g)

\* the gas function executes one instruction; the caller waits
GasStep ==
    /\ pc = "gas"
    /\ \E r \in {gas_step(gasframe, gas_counter)} :
          /\ ~r.trapped /\ ~r.returned
          /\ gasframe' = r.frame
          /\ gas_counter' = r.global
    /\ UNCHANGED <<pc, ip, charged, budget, opstack>>
    /\ CallerFrame

\* the gas function executes `unreachable`
GasTrap ==
    /\ pc = "gas"
    /\ gas_step(gasframe, gas_counter).trapped
    /\ pc' = "trapped"
    /\ UNCHANGED <<ip, charged, gas_counter, budget, opstack, gasframe>>
    /\ CallerFrame

\* the `end` of the gas function: return to the instruction after the call
GasReturn ==
    /\ pc = "gas"
    /\ gas_step(gasframe, gas_counter).returned
    /\ gasframe' = NoFrame
    /\ pc' = "run"
    /\ ip' = ip + 1
    /\ UNCHANGED <<charged, gas_counter, budget, opstack>>
    /\ CallerFrame

NextGas ==
    \/ InjectCounter
    \/ ExecI64Const
    \/ ExecCallGas
    \/ GasStep
    \/ GasTrap
    \/ GasReturn
    \/ ExecPlain
    \/ ExecEnd

SpecGas == InitGas /\ [][NextGas]_vars

(***************************************************************************)
(* The stack height limiter (src/src/stack_limiter/mod.rs).  A module is   *)
(* what the limiter reads and rewrites: the numbers of imported functions  *)
(* and imported globals, the globals of the global section, the defined    *)
(* functions (number of parameters, local declarations as the sequence of  *)
(* the counts of its groups, operators of the body), and the function      *)
(* indices named by the export section, the start section and the element  *)
(* segments.  u32 and i32 have U32Bits bits.                               *)
(***************************************************************************)
U32Bits == 3

U32Mod == 2 ^ U32Bits
I32Half == 2 ^ (U32Bits - 1)

\* `x as i32` for a u32 x: reinterpretation of the bits
U32AsI32(x) == IF x >= I32Half THEN x - U32Mod ELSE x

\* an i32 read as unsigned (i32.gt_u)
I32AsU32(x) == IF x < 0 THEN x + U32Mod ELSE x

\* i32.add and i32.sub wrap
WrapI32(x) == ((x + I32Half) % U32Mod) - I32Half

\* The amount a dynamic-cost thunk passes to the gas function when it is
\* called with `arg` as its last parameter: the body is executed from
\* position pos up to its `call gas_func` (get_local pushes a parameter,
\* i64.extend_i32_u turns the i32 on top into its unsigned value,
\* i64.mul wraps).
RECURSIVE dynamic_charge(_, _, _, _)
dynamic_charge(counter_body, pos, locals, stack) ==
    LET i == counter_body[pos]
        n == Len(stack)
    IN  IF i.op = "Call" THEN stack[n]
        ELSE IF i.op = "GetLocal"
        THEN dynamic_charge(counter_body, pos + 1, locals,
                            Append(stack, locals[i.a + 1]))
        ELSE IF i.op = "I64ExtendUI32"
        THEN dynamic_charge(counter_body, pos + 1, locals,
                            Append(SubSeq(stack, 1, n - 1), I32AsU32(stack[n])))
        ELSE IF i.op = "I64Const"
        THEN dynamic_charge(counter_body, pos + 1, locals, Append(stack, i.a))
        ELSE IF i.op = "I64Mul"
        THEN dynamic_charge(counter_body, pos + 1, locals,
                            Append(SubSeq(stack, 1, n - 2),
                                   WrapI64(stack[n - 1] * stack[n])))
        ELSE dynamic_charge(counter_body, pos + 1, locals, stack)

instrument_call(callee_idx, callee_stack_cost, stack_height_global_idx, stack_limit) ==
    <<Ins("GlobalGet", stack_height_global_idx), I32Const(callee_stack_cost),
      Ins("I32Add", 0), Ins("GlobalSet", stack_height_global_idx),
      Ins("GlobalGet", stack_height_global_idx),
      I32Const(U32AsI32(stack_limit)), Ins("I32GtU", 0),
      If, Unreachable, End,
      Call(callee_idx),
      Ins("GlobalGet", stack_height_global_idx), I32Const(callee_stack_cost),
      Ins("I32Sub", 0), Ins("GlobalSet", stack_height_global_idx)>>

Context(stack_height_global_idx, func_stack_costs, stack_limit) ==
    [stack_height_global_idx |-> stack_height_global_idx,
     func_stack_costs |-> func_stack_costs,
     stack_limit |-> stack_limit]

\* Context::stack_cost: None for an index outside the vector
stack_cost(ctx, func_idx) ==
    IF func_idx < Len(ctx.func_stack_costs)
    THEN SomeConst(ctx.func_stack_costs[func_idx + 1])
    ELSE NoConst

num_functions(m) == m.imported_functions + Len(m.code)

\* the new global is appended to the global section; the index returned is
\* the number of globals the section held
generate_stack_height_global(m) ==
    [module |-> [m EXCEPT !.globals =
                    Append(@, [val_type |-> "i32", mutable |-> TRUE, init |-> 0])],
     index |-> Len(m.globals)]

\* number of parameters of a function of the function index space
\* (imported functions take none here)
ParamsOf(m, func_idx) ==
    IF func_idx < m.imported_functions \/ func_idx >= num_functions(m) THEN 0
    ELSE m.code[func_idx - m.imported_functions + 1].params

\* max_height::compute: the greatest height the operand stack reaches in
\* the body, by one pass over its operators
RECURSIVE max_height_from(_, _, _, _, _)
max_height_from(m, body, k, height, max) ==
    IF k > Len(body) THEN max
    ELSE LET i == body[k]
             h == IF i.op \in {"I32Const", "LocalGet"} THEN height + 1
                  ELSE IF i.op = "Call" THEN height - ParamsOf(m, i.a)
                  ELSE height
         IN  max_height_from(m, body, k + 1, h, IF h > max THEN h ELSE max)

max_height_compute(defined_func_idx, m) ==
    max_height_from(m, m.code[defined_func_idx + 1].body, 1, 0, 0)

\* Ok(cost), or Err
compute_stack_cost(func_idx, m) ==
    IF func_idx < m.imported_functions THEN [err |-> TRUE, v |-> 0]
    ELSE LET defined_func_idx == func_idx - m.imported_functions
         IN  IF defined_func_idx >= Len(m.code) THEN [err |-> TRUE, v |-> 0]
             ELSE LET locals_count == Len(m.code[defined_func_idx + 1].locals)
                      sum == locals_count + max_height_compute(defined_func_idx, m)
                  IN  IF sum >= U32Mod THEN [err |-> TRUE, v |-> 0]
                      ELSE [err |-> FALSE, v |-> sum]

compute_stack_costs(m) ==
    LET cost(func_idx) ==
            IF func_idx < m.imported_functions THEN [err |-> FALSE, v |-> 0]
            ELSE compute_stack_cost(func_idx, m)
    IN  [err |-> \E f \in 0..num_functions(m) - 1 : cost(f).err,
         costs |-> [k \in 1..num_functions(m) |-> cost(k - 1).v]]

\* instrument_function wrapping every call whose callee has a stack cost,
\* a cost of 0 included
RECURSIVE instrument_from_AnyCost(_, _, _)
instrument_from_AnyCost(ctx, operators, original_pos) ==
    IF original_pos >= Len(operators) THEN <<>>
    ELSE LET instr == operators[original_pos + 1]
             cost == IF instr.op = "Call" THEN stack_cost(ctx, instr.a) ELSE NoConst
             did_instrument == cost.some
         IN  (IF did_instrument
              THEN instrument_call(instr.a, U32AsI32(cost.v),
                                   ctx.stack_height_global_idx, ctx.stack_limit)
              ELSE <<instr>>)
             \o instrument_from_AnyCost(ctx, operators, original_pos + 1)

\* the loop of instrument_function over the operators, from original_pos
RECURSIVE instrument_from(_, _, _)
instrument_from(ctx, operators, original_pos) ==
    IF original_pos >= Len(operators) THEN <<>>
    ELSE LET instr == operators[original_pos + 1]
             cost == IF instr.op = "Call" THEN stack_cost(ctx, instr.a) ELSE NoConst
             did_instrument == cost.some /\ cost.v > 0
         IN  (IF did_instrument
              THEN instrument_call(instr.a, U32AsI32(cost.v),
                                   ctx.stack_height_global_idx, ctx.stack_limit)
              ELSE <<instr>>)
             \o instrument_from(ctx, operators, original_pos + 1)

instrument_function(ctx, func) ==
    [func EXCEPT !.body = instrument_from(ctx, func.body, 0)]

instrument_functions(ctx, m) ==
    [m EXCEPT !.code = [k \in 1..Len(m.code) |-> instrument_function(ctx, m.code[k])]]

(***************************************************************************)
(* thunk::generate_thunks.  Every function with a stack cost above 0 that  *)
(* the export section, the start section or an element segment names gets  *)
(* a thunk, a new function of the same signature appended to the module,   *)
(* and the entries naming the function are made to name the thunk.         *)
(***************************************************************************)
\* the functions that need a thunk
need_thunk(ctx, m) ==
    {f \in {m.exports[k] : k \in 1..Len(m.exports)}
             \cup {m.start[k] : k \in 1..Len(m.start)}
             \cup {m.elements[k] : k \in 1..Len(m.elements)} :
        stack_cost(ctx, f).some /\ stack_cost(ctx, f).v > 0}

\* index of the thunk of f: the thunks follow the functions of the module,
\* in the order of the functions they wrap
thunk_idx(m, need, f) ==
    num_functions(m) + Cardinality({g \in need : g < f})

\* the body forwards the parameters to the callee inside the preamble and
\* postamble
thunk_body(ctx, m, f) ==
    [params |-> ParamsOf(m, f),
     locals |-> <<>>,
     body |-> [i \in 1..ParamsOf(m, f) |-> Ins("LocalGet", i - 1)]
              \o instrument_call(f, U32AsI32(stack_cost(ctx, f).v),
                                 ctx.stack_height_global_idx, ctx.stack_limit)
              \o <<End>>]

replace_with_thunks(m, need, entries) ==
    [k \in 1..Len(entries) |->
        IF entries[k] \in need THEN thunk_idx(m, need, entries[k]) ELSE entries[k]]

generate_thunks(ctx, m) ==
    LET need == need_thunk(ctx, m)
        thunks == [k \in 1..Cardinality(need) |->
                     thunk_body(ctx, m,
                                CHOOSE f \in need :
                                    thunk_idx(m, need, f) = num_functions(m) + k - 1)]
    IN  [m EXCEPT !.code = @ \o thunks,
                  !.exports = replace_with_thunks(m, need, @),
                  !.start = replace_with_thunks(m, need, @),
                  !.elements = replace_with_thunks(m, need, @)]

(***************************************************************************)
(* stack_limiter::inject.  The result keeps the Context of the run next to *)
(* the module returned.                                                    *)
(***************************************************************************)
\* inject generating the thunks before the direct calls are instrumented
inject_with_ThunksFirst(ctx, m) ==
    [err |-> FALSE, ctx |-> ctx,
     module |-> instrument_functions(ctx, generate_thunks(ctx, m))]

\* inject once the Context is made
inject_with(ctx, m) ==
    [err |-> FALSE, ctx |-> ctx,
     module |-> generate_thunks(ctx, instrument_functions(ctx, m))]

\* inject after generate_stack_height_global has returned g
inject_costs(g, stack_limit) ==
    LET c == compute_stack_costs(g.module)
    IN  IF c.err THEN [err |-> TRUE, ctx |-> Context(g.index, <<>>, stack_limit),
                       module |-> g.module]
        ELSE inject_with(Context(g.index, c.costs, stack_limit), g.module)

stack_limiter_inject(m, stack_limit) ==
    inject_costs(generate_stack_height_global(m), stack_limit)

(***************************************************************************)
(* SpecStack: a module is assembled section by section, handed to          *)
(* stack_limiter::inject with a stack limit, instantiated, and the host    *)
(* calls one of the functions the module exposes.                          *)
(***************************************************************************)
\* most imports, globals, functions, operators and entries of a module together
StackMaxItems == 4
\* most calls in progress
MaxDepth == 3
\* most parameters of a function
MaxParams == 1

EmptyModule ==
    [imported_functions |-> 0, imported_globals |-> 0, globals |-> <<>>,
     code |-> <<>>, exports |-> <<>>, start |-> <<>>, elements |-> <<>>]

\* local declarations of a function: the counts of the groups
LocalDecls == {<<>>, <<2>>, [k \in 1..U32Mod - 1 |-> 1]}

StackLimits == {1, U32Mod - 1}

StackAlphabet ==
    {I32Const(0)} \cup {Call(f) : f \in 0..MaxImports + MaxFuncs - 1}

StackModuleSize(m) ==
    m.imported_functions + m.imported_globals + Len(m.globals) + Len(m.code)
    + SumLen([k \in 1..Len(m.code) |-> m.code[k].body])
    + Len(m.exports) + Len(m.start) + Len(m.elements)

\* every body has its final `end`
Closed(m) ==
    \A k \in 1..Len(m.code) :
        m.code[k].body /= <<>> /\ m.code[k].body[Len(m.code[k].body)] = End

StackIdle ==
    /\ UNCHANGED <<rules, instructions, new_instrs, dyn_instrs, ip, charged,
                   spent, jumps>>
    /\ UNCHANGED <<gas_counter, budget, gasframe>>

InitStack ==
    /\ pc = "build"
    /\ module = EmptyModule
    /\ result = <<>>
    /\ frames = <<>>
    /\ globals = <<>>
    /\ opstack = <<>>
    /\ rules = <<>>
    /\ instructions = <<>>
    /\ new_instrs = <<>>
    /\ dyn_instrs = {}
    /\ ip = 0
    /\ charged = 0
    /\ spent = 0
    /\ jumps = 0
    /\ gas_counter = 0
    /\ budget = 0
    /\ gasframe = NoFrame

StackBuilding == pc = "build" /\ StackModuleSize(module) < StackMaxItems

StackBuildFrame == UNCHANGED <<pc, result, frames, globals, opstack>> /\ StackIdle

\* an imported function, or an imported global
AddImport ==
    /\ StackBuilding
    /\ module.globals = <<>> /\ module.code = <<>>
    /\ \/ /\ module.imported_functions < MaxImports
          /\ module.imported_globals = 0
          /\ module' = [module EXCEPT !.imported_functions = @ + 1]
       \/ /\ module.imported_globals < MaxImports
          /\ module' = [module EXCEPT !.imported_globals = @ + 1]
    /\ StackBuildFrame

AddGlobal ==
    /\ StackBuilding
    /\ Len(module.globals) < MaxEntries
    /\ module.code = <<>>
    /\ module' = [module EXCEPT !.globals =
                     Append(@, [val_type |-> "i64", mutable |-> TRUE, init |-> 0])]
    /\ StackBuildFrame

AddFunction ==
    /\ StackBuilding
    /\ Len(module.code) < MaxFuncs
    /\ Closed(module)
    /\ module.exports = <<>> /\ module.start = <<>> /\ module.elements = <<>>
    /\ \E params \in 0..MaxParams, locals \in LocalDecls :
          module' = [module EXCEPT !.code =
                        Append(@, [params |-> params, locals |-> locals,
                                   body |-> <<>>])]
    /\ StackBuildFrame

\* the next operator of the body of the last function
AddOperator ==
    /\ pc = "build"
    /\ ~Closed(module)
    /\ LET n == Len(module.code)
       IN  \/ /\ StackBuilding
              /\ Len(module.code[n].body) < MaxBodyLen
              /\ \E i \in StackAlphabet :
                    module' = [module EXCEPT !.code[n].body = Append(@, i)]
           \/ module' = [module EXCEPT !.code[n].body = Append(@, End)]
    /\ StackBuildFrame

\* an export entry, the start section, or an element segment
AddEntry ==
    /\ StackBuilding
    /\ Closed(module)
    /\ \E f \in 0..num_functions(module) - 1 :
          \/ /\ module.start = <<>> /\ module.elements = <<>>
             /\ Len(module.exports) < MaxEntries
             /\ module' = [module EXCEPT !.exports = Append(@, f)]
          \/ /\ module.elements = <<>>
             /\ module.start = <<>>
             /\ module' = [module EXCEPT !.start = <<f>>]
          \/ /\ Len(module.elements) < MaxEntries
             /\ module' = [module EXCEPT !.elements = Append(@, f)]
    /\ StackBuildFrame

\* inject, and the instantiation of the module it returns
StackInject ==
    /\ pc = "build"
    /\ Closed(module)
    /\ \E stack_limit \in StackLimits :
       \E r \in {stack_limiter_inject(module, stack_limit)} :
          /\ result' = r
          /\ pc' = IF r.err THEN "failed" ELSE "ready"
          /\ globals' = [k \in 1..r.module.imported_globals + Len(r.module.globals)
                            |-> 0]
    /\ UNCHANGED <<module, frames, opstack>>
    /\ StackIdle

StackFrame == UNCHANGED <<module, result>> /\ StackIdle

\* body of a function of the instrumented module
BodyAt(func_idx) ==
    result.module.code[func_idx - result.module.imported_functions + 1].body

Top == frames[Len(frames)]

TopInstr == BodyAt(Top.func)[Top.ip]

Advance(stack, k) ==
    /\ frames' = [frames EXCEPT ![Len(frames)].ip = k]
    /\ opstack' = stack

\* the host calls a function the module exposes
Invoke ==
    /\ pc = "ready"
    /\ \E f \in {result.module.exports[k] : k \in 1..Len(result.module.exports)}
                \cup {result.module.start[k] : k \in 1..Len(result.module.start)}
                \cup {result.module.elements[k] : k \in 1..Len(result.module.elements)} :
          /\ f >= result.module.imported_functions
          /\ frames' = <<[func |-> f, ip |-> 1, entry |-> 0]>>
          /\ opstack' = [k \in 1..ParamsOf(result.module, f) |-> 0]
    /\ pc' = "run"
    /\ UNCHANGED globals
    /\ StackFrame

\* an operator that is neither a call nor a trap nor the end of the function
StackExec ==
    /\ pc = "run"
    /\ LET i == TopInstr
           n == Len(opstack)
           H == i.a + 1
       IN  \/ /\ i.op \in {"I32Const", "LocalGet", "GlobalGet"}
              /\ Advance(Append(opstack, IF i.op = "I32Const" THEN i.a
                                         ELSE IF i.op = "LocalGet" THEN 0
                                         ELSE globals[H]),
                         Top.ip + 1)
              /\ UNCHANGED globals
           \/ /\ i.op = "GlobalSet"
              /\ globals' = [globals EXCEPT ![H] = opstack[n]]
              /\ Advance(SubSeq(opstack, 1, n - 1), Top.ip + 1)
           \/ /\ i.op \in {"I32Add", "I32Sub", "I32GtU"}
              /\ Advance(Append(SubSeq(opstack, 1, n - 2),
                                IF i.op = "I32Add"
                                THEN WrapI32(opstack[n - 1] + opstack[n])
                                ELSE IF i.op = "I32Sub"
                                THEN WrapI32(opstack[n - 1] - opstack[n])
                                ELSE IF I32AsU32(opstack[n - 1]) > I32AsU32(opstack[n])
                                THEN 1 ELSE 0),
                         Top.ip + 1)
              /\ UNCHANGED globals
           \/ /\ i.op = "If"
              /\ Advance(SubSeq(opstack, 1, n - 1),
                         IF opstack[n] /= 0 THEN Top.ip + 1
                         ELSE MatchingEnd(BodyAt(Top.func), Top.ip) + 1)
              /\ UNCHANGED globals
           \/ /\ i.op = "End"
              /\ Top.ip < Len(BodyAt(Top.func))
              /\ Advance(opstack, Top.ip + 1)
              /\ UNCHANGED globals
    /\ UNCHANGED pc
    /\ StackFrame

\* `call f` of a function the module defines
StackCall ==
    /\ pc = "run"
    /\ TopInstr.op = "Call"
    /\ TopInstr.a >= result.module.imported_functions
    /\ TopInstr.a < num_functions(result.module)
    /\ Len(opstack) >= ParamsOf(result.module, TopInstr.a)
    /\ Len(frames) < MaxDepth
    /\ frames' = Append(frames,
                        [func |-> TopInstr.a, ip |-> 1,
                         entry |-> globals[result.ctx.stack_height_global_idx + 1]])
    /\ UNCHANGED <<pc, globals, opstack>>
    /\ StackFrame

\* `call f` of an imported function: the host function returns, or traps
StackCallHost ==
    /\ pc = "run"
    /\ TopInstr.op = "Call"
    /\ TopInstr.a < result.module.imported_functions
    /\ \/ Advance(opstack, Top.ip + 1) /\ UNCHANGED pc
       \/ pc' = "trapped" /\ UNCHANGED <<frames, opstack>>
    /\ UNCHANGED globals
    /\ StackFrame

StackTrap ==
    /\ pc = "run"
    /\ TopInstr.op = "Unreachable"
    /\ pc' = "trapped"
    /\ UNCHANGED <<frames, globals, opstack>>
    /\ StackFrame

\* the final `end`: the function returns to the operator after the call
StackReturn ==
    /\ pc = "run"
    /\ TopInstr.op = "End"
    /\ Top.ip = Len(BodyAt(Top.func))
    /\ LET n == Len(frames)
       IN  IF n = 1
           THEN frames' = <<>> /\ pc' = "done"
           ELSE /\ frames' = [SubSeq(frames, 1, n - 1) EXCEPT ![n - 1].ip = @ + 1]
                /\ pc' = "run"
    /\ opstack' = SubSeq(opstack, 1,
                         Len(opstack) - ParamsOf(result.module, Top.func))
    /\ UNCHANGED globals
    /\ StackFrame

NextStack ==
    \/ AddImport
    \/ AddGlobal
    \/ AddFunction
    \/ AddOperator
    \/ AddEntry
    \/ StackInject
    \/ Invoke
    \/ StackExec
    \/ StackCall
    \/ StackCallHost
    \/ StackTrap
    \/ StackReturn

SpecStack == InitStack /\ [][NextStack]_vars

(***************************************************************************)
(* Auxiliary definitions for the properties of Spec.                       *)
(***************************************************************************)
ChargePositions(instrs) == {k \in 1..Len(instrs) : IsCharge(instrs, k)}

RECURSIVE SumOver(_, _)
SumOver(f, S) ==
    IF S = {} THEN 0
    ELSE LET x == CHOOSE y \in S : TRUE IN f[x] + SumOver(f, S \ {x})

\* the amounts of the charges of an instrumented body, as the u64 costs
\* they were written from
ChargedU64(instrs) ==
    SumOver([k \in ChargePositions(instrs) |-> instrs[k].a % U64Mod],
            ChargePositions(instrs))

\* the body without its charges
RECURSIVE StripCharges(_, _)
StripCharges(instrs, k) ==
    IF k > Len(instrs) THEN <<>>
    ELSE IF IsCharge(instrs, k) THEN StripCharges(instrs, k + 2)
    ELSE <<instrs[k]>> \o StripCharges(instrs, k + 1)

\* sum over the body of what the rules return for each instruction (a
\* Linear instruction counting as the scanner computes it), `end` and
\* `else` included
RuleCost(instrs, r, k) ==
    LET lc == IF k > 0 /\ instrs[k].op = "I32Const" THEN SomeConst(instrs[k].a)
              ELSE NoConst
    IN  static_cost(r, instrs[k + 1], lc).cost

TotalRuleCost(instrs, r) ==
    SumOver([k \in 0..Len(instrs) - 1 |-> RuleCost(instrs, r, k)],
            0..Len(instrs) - 1)

TotalCountedCost(instrs, r) ==
    SumOver([k \in 0..Len(instrs) - 1 |-> CountedCost(instrs, r, k)],
            0..Len(instrs) - 1)

\* no unchecked operation overflowed while the body was scanned and every
\* block cost is written as a non-negative i64
NumericallySound ==
    LET d == determine_metered_blocks(instructions, rules)
    IN  /\ ~d.overflowed
        /\ \A k \in 1..Len(d.blocks) : d.blocks[k].cost < I64Half

Executing == pc \in {"run", "exited"}

(***************************************************************************)
(* C1.  All executed instructions are already paid for: at every point of  *)
(* every execution of an instrumented body, the sum of the amounts passed  *)
(* to the gas function so far is at least the sum of the static costs of   *)
(* the original instructions executed so far.  (`spent` leaves out what    *)
(* the rules return for `end` and `else`, which the scanner never charges: *)
(* the statement checked is implied by the claim.)                         *)
(***************************************************************************)
C1_PaidBeforeExecuted == Executing => charged >= spent

(***************************************************************************)
(* C2.  Metered blocks are all-or-none: when a trap-free execution leaves  *)
(* the function, the total charged equals the total static cost of the     *)
(* instructions executed, also when a branch targets an enclosing loop.    *)
(* (Checked on the bodies whose block costs neither overflow nor become    *)
(* negative as i64; the statement checked is implied by the claim.)        *)
(***************************************************************************)
C2_AllOrNone == (pc = "exited" /\ NumericallySound) => charged = spent

OkRuns == {k \in 1..Len(result) : result[k].tag = "Ok"}

\* G and N of the input module
InputGlobals == import_count_global(module)
InputFuncs == functions_space(module)

\* position, in the code section, of the function with index f
BodyOfFunc(m, f) == f - CountSeq(m.imports, "Func") + 1

\* a body of the output without the charges `i64.const k; call gas_func`
RECURSIVE Uncharged(_, _, _)
Uncharged(instrs, gas_func, k) ==
    IF k > Len(instrs) THEN <<>>
    ELSE IF /\ k + 1 <= Len(instrs)
            /\ instrs[k].op = "I64Const"
            /\ instrs[k + 1] = Call(gas_func)
         THEN Uncharged(instrs, gas_func, k + 2)
         ELSE <<instrs[k]>> \o Uncharged(instrs, gas_func, k + 1)

\* the j-th original body as it stands in the output of run k
OutBody(k, j) == Uncharged(result[k].module.bodies[j], InputFuncs, 1)

\* the original instructions, as <<body, position>>
Sites == {s \in (1..Len(module.bodies)) \X (1..(MaxBodyLen + 1)) :
             s[2] <= Len(module.bodies[s[1]])}

\* the function indices of the thunks of run k
Thunks(k) ==
    {f \in InputFuncs + 1 .. InputFuncs + Len(result[k].module.bodies) :
        BodyOfFunc(module, f) <= Len(result[k].module.bodies)}

\* the instruction the thunk with index f of run k charges for and executes
ThunkInstr(k, f) ==
    LET body == result[k].module.bodies[BodyOfFunc(module, f)]
    IN  body[Len(body) - 1]

\* a global index of the input, in the output
Shifted(g) == IF g >= InputGlobals THEN g + 1 ELSE g

IsGlobalRef(i) == i.op \in {"GetGlobal", "SetGlobal"}

(***************************************************************************)
(* C4.  When inject fails, the caller gets the original module back: every *)
(* run returns either a transformed module or the input module as its      *)
(* error value.                                                            *)
(***************************************************************************)
C4_OriginalModuleOnFailure ==
    \A k \in 1..Len(result) :
        result[k].tag = "Err"
            => result[k].has_module /\ result[k].module = module

\* what the input module holds
HasRejectedInstr ==
    \E s \in Sites : instruction_cost(rules, module.bodies[s[1]][s[2]]).kind = "Err"

HasGasGlobalImport ==
    \E i \in 1..Len(module.imports) :
        /\ module.imports[i].kind = "Global"
        /\ module.imports[i].module = GasModuleName
        /\ module.imports[i].field = GAS_COUNTER_NAME
        /\ module.imports[i].mutable

HasBadOffset ==
    \E code \in {module.elements[i] : i \in 1..Len(module.elements)}
                 \cup {module.data[i] : i \in 1..Len(module.data)} :
        code /= <<>> /\ ~(Len(code) = 2 /\ code[1].op = "I32Const" /\ code[2] = End)

(***************************************************************************)
(* C5.  inject fails closed: it returns no module when the input holds an  *)
(* instruction the rules reject, a mutable global import with module       *)
(* gas_module_name and field gas_counter, or an element or data segment    *)
(* whose offset initializer is not `i32.const N; end`, whatever the order  *)
(* of the sections.                                                        *)
(***************************************************************************)
C5_FailsClosed ==
    (HasRejectedInstr \/ HasGasGlobalImport \/ HasBadOffset) => OkRuns = {}

\* an import with the module, field and mutability of the gas counter
GasTriple(p) ==
    /\ p.kind = "Global"
    /\ p.module = GasModuleName
    /\ p.field = GAS_COUNTER_NAME
    /\ p.mutable

(***************************************************************************)
(* C6.  Gas-import uniqueness: in every module inject returns, exactly one *)
(* import is a mutable i64 global with module gas_module_name and field    *)
(* gas_counter, and no other import has that module, field and mutability. *)
(***************************************************************************)
C6_GasImportUnique ==
    \A k \in OkRuns :
        LET imports == result[k].module.imports
            matching == {i \in 1..Len(imports) : GasTriple(imports[i])}
        IN  /\ Cardinality(matching) = 1
            /\ \A i \in matching : imports[i].ty = "i64"

\* a module that imports a gas_counter global of another module, or an
\* immutable one, is accepted
C6_Witness ==
    /\ OkRuns /= {}
    /\ \E i \in 1..Len(module.imports) : module.imports[i].field = GAS_COUNTER_NAME

(***************************************************************************)
(* C7.  Global reference integrity: in every module inject returns, the    *)
(* gas counter is the imported global with index G, the number of globals  *)
(* the input imports; every get_global / set_global of an original body    *)
(* and every Global export has its index incremented by 1 if it was >= G   *)
(* and unchanged otherwise; the gas function reads and writes global G.    *)
(***************************************************************************)
C7_GlobalReferences ==
    \A k \in OkRuns :
        LET out == result[k].module
            gas == out.bodies[BodyOfFunc(module, InputFuncs)]
        IN  /\ import_count_global(out) = InputGlobals + 1
            /\ GasTriple(out.imports[Len(out.imports)])
            /\ \A s \in Sites :
                  LET i == module.bodies[s[1]][s[2]]
                  IN  IsGlobalRef(i)
                         => OutBody(k, s[1])[s[2]] = [i EXCEPT !.a = Shifted(i.a)]
            /\ Len(out.exports) = Len(module.exports)
            /\ \A e \in 1..Len(module.exports) :
                  out.exports[e] =
                      IF module.exports[e].kind = "Global"
                      THEN [module.exports[e] EXCEPT !.index = Shifted(@)]
                      ELSE module.exports[e]
            /\ \E p \in 1..Len(gas) : gas[p] = GetGlobal(InputGlobals)
            /\ \E p \in 1..Len(gas) : gas[p] = SetGlobal(InputGlobals)
            /\ \A p \in 1..Len(gas) : IsGlobalRef(gas[p]) => gas[p].a = InputGlobals

\* an accepted module that imports a global, refers to a global it defines
\* and to the one it imports, or exports a global it defines
C7_Witness ==
    /\ OkRuns /= {}
    /\ InputGlobals = 1
    /\ \/ \E s, t \in Sites :
             /\ module.bodies[s[1]][s[2]] = GetGlobal(1)
             /\ module.bodies[t[1]][t[2]] = GetGlobal(0)
       \/ /\ module.exports = <<Export("Global", 1)>>
          /\ \E s \in Sites : module.bodies[s[1]][s[2]] = SetGlobal(1)

C9_AllOccurrencesRewritten ==
    \A k \in OkRuns :
        \A f \in Thunks(k) :
            \A s \in Sites :
                module.bodies[s[1]][s[2]] = ThunkInstr(k, f)
                    => OutBody(k, s[1])[s[2]] = Call(f)

(***************************************************************************)
(* C10.  inject is deterministic: two runs on the same module, rules and   *)
(* gas_module_name return the same module, with the same thunk indices     *)
(* and the same order of the thunks.                                       *)
(***************************************************************************)
C10_Deterministic ==
    \A k, l \in 1..Len(result) : result[k] = result[l]


(***************************************************************************)
(* C11.  The static cost of a metered block never wraps: whenever          *)
(* inject_counter succeeds, every arithmetic step that went into a block   *)
(* cost (the cost of an instruction, base + v * per for a constant         *)
(* operand, the merge of a closing block into its parent) gave the exact   *)
(* result within u64.                                                      *)
(***************************************************************************)
C11_NeverWraps ==
    pc = "run" => ~determine_metered_blocks(instructions, rules).overflowed


\* the gas function has returned or trapped
GasCalled ==
    /\ IsCharge(new_instrs, 1)
    /\ pc = "trapped" \/ (pc \in {"run", "exited"} /\ ip > 2)

\* the u64 cost of the metered block of the body
EmittedCost == determine_metered_blocks(instructions, rules).blocks[1].cost

(***************************************************************************)
(* C12.  A call of the gas function with amount k sets the gas counter to  *)
(* (old - k) and traps if and only if the new value is negative as a       *)
(* signed 64-bit integer; for every metered-block cost k the injector      *)
(* emits and every non-negative budget b, the call traps whenever k > b    *)
(* and never increases the counter.                                        *)
(***************************************************************************)
C12_GasFunction ==
    GasCalled =>
        /\ gas_counter = WrapI64(budget - U64AsI64(EmittedCost))
        /\ (pc = "trapped") = (gas_counter < 0)
        /\ (EmittedCost > budget => pc = "trapped")
        /\ gas_counter <= budget


(***************************************************************************)
(* Auxiliary definitions for the properties of SpecStack.                  *)
(***************************************************************************)
\* stack_limiter::inject has run
Injected == pc \in {"ready", "run", "done", "trapped", "failed"}

RECURSIVE SumSeq(_)
SumSeq(seq) == IF seq = <<>> THEN 0 ELSE Head(seq) + SumSeq(Tail(seq))

\* number of parameters + number of declared local variables + maximum
\* height of the operand stack, for the defined function f of the input
ParamsLocalsHeight(f) ==
    LET d == f - module.imported_functions
    IN  module.code[d + 1].params + SumSeq(module.code[d + 1].locals)
        + max_height_compute(d, module)

DefinedFuncs == module.imported_functions..num_functions(module) - 1

(***************************************************************************)
(* C13.  compute_stack_costs returns one entry per function index; the     *)
(* entry is 0 for every imported function and, for every defined function, *)
(* equals (number of parameters + number of declared local variables +     *)
(* maximum operand-stack height of the body); the stack limiter fails with *)
(* an error if that sum overflows u32.                                     *)
(***************************************************************************)
C13_StackCost ==
    Injected =>
        /\ (\E f \in DefinedFuncs : ParamsLocalsHeight(f) >= U32Mod) => result.err
        /\ ~result.err =>
              /\ Len(result.ctx.func_stack_costs) = num_functions(module)
              /\ \A f \in 0..module.imported_functions - 1 :
                    result.ctx.func_stack_costs[f + 1] = 0
              /\ \A f \in DefinedFuncs :
                    result.ctx.func_stack_costs[f + 1] = ParamsLocalsHeight(f)


\* stack cost of the function index f in the run of inject, 0 if it has none
CostOf(f) ==
    IF f < Len(result.ctx.func_stack_costs)
    THEN result.ctx.func_stack_costs[f + 1] ELSE 0

\* positions of the calls, in the body of the defined function d of the
\* input, whose callee has a stack cost above 0
CostlyCalls(d) ==
    {p \in 1..Len(module.code[d].body) :
        module.code[d].body[p].op = "Call" /\ CostOf(module.code[d].body[p].a) > 0}

\* where the operator at position p of the input body is expected in the
\* instrumented body
ExpectedPos(d, p) == p + 14 * Cardinality({q \in CostlyCalls(d) : q < p})

(***************************************************************************)
(* C14.  In every function body instrument_function replaces each `call f` *)
(* with stack_cost(f) > 0 by exactly global.get H; i32.const cost(f);       *)
(* i32.add; global.set H; global.get H; i32.const L; i32.gt_u; if;         *)
(* unreachable; end; call f; global.get H; i32.const cost(f); i32.sub;     *)
(* global.set H, and copies every other operator, the calls of callees of  *)
(* stack cost 0 among them, unchanged and in the original order: a body    *)
(* with k instrumented calls grows by exactly 14 * k operators.            *)
(***************************************************************************)
C14_DirectCalls ==
    (Injected /\ ~result.err) =>
        \A d \in 1..Len(module.code) :
            LET in == module.code[d].body
                out == result.module.code[d].body
                H == result.ctx.stack_height_global_idx
                L == U32AsI32(result.ctx.stack_limit)
            IN  /\ Len(out) = Len(in) + 14 * Cardinality(CostlyCalls(d))
                /\ \A p \in 1..Len(in) :
                      IF p \in CostlyCalls(d)
                      THEN SubSeq(out, ExpectedPos(d, p), ExpectedPos(d, p) + 14)
                           = <<Ins("GlobalGet", H),
                               Ins("I32Const", U32AsI32(CostOf(in[p].a))),
                               Ins("I32Add", 0), Ins("GlobalSet", H),
                               Ins("GlobalGet", H), Ins("I32Const", L),
                               Ins("I32GtU", 0), Ins("If", 0),
                               Ins("Unreachable", 0), Ins("End", 0),
                               in[p],
                               Ins("GlobalGet", H),
                               Ins("I32Const", U32AsI32(CostOf(in[p].a))),
                               Ins("I32Sub", 0), Ins("GlobalSet", H)>>
                      ELSE out[ExpectedPos(d, p)] = in[p]

\* a body with an instrumented call and a call that is copied
C14_Witness ==
    /\ Injected /\ ~result.err
    /\ \E d \in 1..Len(module.code) :
          /\ CostlyCalls(d) /= {}
          /\ \E p \in 1..Len(module.code[d].body) :
                module.code[d].body[p].op = "Call" /\ p \notin CostlyCalls(d)


(***************************************************************************)
(* C15.  For every input module, modules that import globals included,     *)
(* the stack limiter appends exactly one mutable i32 global initialised to *)
(* 0, and the global index H used by every preamble and postamble is the   *)
(* index of that new global in the global index space (imported globals    *)
(* first, then defined globals): the injected code reads and writes no     *)
(* global the module had before.                                           *)
(***************************************************************************)
C15_StackHeightGlobal ==
    (Injected /\ ~result.err) =>
        /\ result.module.imported_globals = module.imported_globals
        /\ result.module.globals
              = Append(module.globals,
                       [val_type |-> "i32", mutable |-> TRUE, init |-> 0])
        /\ \A d \in 1..Len(result.module.code) :
           \A p \in 1..Len(result.module.code[d].body) :
              result.module.code[d].body[p].op \in {"GlobalGet", "GlobalSet"}
                  => result.module.code[d].body[p].a
                         = module.imported_globals + Len(module.globals)


\* the entry that named function f of the input names g in the output: f
\* itself if its stack cost is 0, otherwise a new function with the
\* signature of f whose body forwards the parameters to f inside one
\* preamble and postamble
Thunked(f, g) ==
    IF CostOf(f) = 0 THEN g = f
    ELSE /\ g >= num_functions(module)
         /\ g < num_functions(result.module)
         /\ LET thunk == result.module.code[g - module.imported_functions + 1]
                H == result.ctx.stack_height_global_idx
                cost == Ins("I32Const", U32AsI32(CostOf(f)))
            IN  /\ thunk.params = ParamsOf(module, f)
                /\ thunk.body
                      = [i \in 1..ParamsOf(module, f) |-> Ins("LocalGet", i - 1)]
                        \o <<Ins("GlobalGet", H), cost, Ins("I32Add", 0),
                             Ins("GlobalSet", H), Ins("GlobalGet", H),
                             Ins("I32Const", U32AsI32(result.ctx.stack_limit)),
                             Ins("I32GtU", 0), Ins("If", 0),
                             Ins("Unreachable", 0), Ins("End", 0),
                             Ins("Call", f),
                             Ins("GlobalGet", H), cost, Ins("I32Sub", 0),
                             Ins("GlobalSet", H), Ins("End", 0)>>

(***************************************************************************)
(* C16.  After stack_limiter::inject every function referenced by an       *)
(* export entry, the start section or an element segment either has stack  *)
(* cost 0 or the reference has been rewritten to a thunk of the same       *)
(* signature that forwards its parameters to the original function inside  *)
(* the preamble and postamble; the thunks are generated after the direct   *)
(* calls have been instrumented, so a thunk's call is wrapped once.        *)
(***************************************************************************)
C16_ThunkCoverage ==
    (Injected /\ ~result.err) =>
        /\ Len(result.module.exports) = Len(module.exports)
        /\ Len(result.module.start) = Len(module.start)
        /\ Len(result.module.elements) = Len(module.elements)
        /\ \A k \in 1..Len(module.exports) :
              Thunked(module.exports[k], result.module.exports[k])
        /\ \A k \in 1..Len(module.start) :
              Thunked(module.start[k], result.module.start[k])
        /\ \A k \in 1..Len(module.elements) :
              Thunked(module.elements[k], result.module.elements[k])

\* an exported function with a parameter and a stack cost above 0, and a
\* start function of stack cost 0
C16_Witness ==
    /\ Injected /\ ~result.err
    /\ \E k \in 1..Len(module.exports) :
          CostOf(module.exports[k]) > 0 /\ ParamsOf(module, module.exports[k]) > 0
    /\ \E k \in 1..Len(module.start) : CostOf(module.start[k]) = 0


\* the call at position p of a body is wrapped in a preamble and postamble
InstrumentedAt(body, p) ==
    /\ p > 10 /\ p + 4 <= Len(body)
    /\ body[p].op = "Call"
    /\ SubSeq(body, p - 10, p + 4)
          = instrument_call(body[p].a, body[p - 9].a,
                            result.ctx.stack_height_global_idx,
                            result.ctx.stack_limit)

\* the stack cost the preamble of the call at position p adds
PreambleCost(body, p) == I32AsU32(body[p - 9].a)

\* the stack height counter, as the unsigned number i32.gt_u compares
Counter == I32AsU32(globals[result.ctx.stack_height_global_idx + 1])

\* the calls in progress that went through a preamble: the frames waiting
\* at an instrumented call
InstrumentedCallers ==
    {k \in 1..Len(frames) - 1 :
        InstrumentedAt(BodyAt(frames[k].func), frames[k].ip)}

\* the counter before the preamble of the call frame k waits at
CounterBefore(k) ==
    (I32AsU32(frames[k + 1].entry)
        - PreambleCost(BodyAt(frames[k].func), frames[k].ip)) % U32Mod

(***************************************************************************)
(* C17.  In an instrumented call sequence the counter is increased by the  *)
(* callee's stack cost and compared with the limit before the call         *)
(* executes: the callee is entered only if (counter before the preamble +  *)
(* cost) <= L, for every limit and cost in the u32 range, values where     *)
(* counter + cost exceeds 2^32 - 1 included; the counter does not exceed L *)
(* when an instrumented callee is entered.                                 *)
(***************************************************************************)
C17_LimitEnforced ==
    pc = "run" =>
        \A k \in InstrumentedCallers :
            /\ I32AsU32(frames[k + 1].entry) <= result.ctx.stack_limit
            /\ CounterBefore(k) + PreambleCost(BodyAt(frames[k].func), frames[k].ip)
                  <= result.ctx.stack_limit


\* the stack cost frame k has added to the counter and not yet taken back:
\* the frame is between the global.set of a preamble and the global.set of
\* its postamble
InProgressCost(k) ==
    LET body == BodyAt(frames[k].func)
        open == {p \in 1..Len(body) :
                    /\ InstrumentedAt(body, p)
                    /\ p - 6 <= frames[k].ip /\ frames[k].ip <= p + 4}
    IN  IF open = {} THEN 0 ELSE PreambleCost(body, CHOOSE p \in open : TRUE)

InProgressSum ==
    SumOver([k \in 1..Len(frames) |-> InProgressCost(k)], 1..Len(frames))

(***************************************************************************)
(* C18.  Whenever an instrumented call returns normally the postamble      *)
(* restores the counter to the value it had before the preamble: at every  *)
(* point of a trap-free execution the counter equals the sum of the stack  *)
(* costs of the instrumented calls in progress, and it is back at its      *)
(* initial value when the outermost call has returned.                     *)
(***************************************************************************)
C18_StackHeightBalance ==
    /\ pc = "run" => Counter = InProgressSum
    /\ pc = "done" => Counter = 0


(***************************************************************************)
(* Auxiliary definitions for the block rules of the scanner (Spec).        *)
(***************************************************************************)
\* inject_counter has returned Ok and the body has not started to run
Metered == pc = "run" /\ ip = 1

\* a charge stands right before the instruction at 0-based position q of
\* the original body
HasChargeAt(q) ==
    \E k \in ChargePositions(new_instrs) : OrigPos(new_instrs, k) = q

\* the labels of the branch instruction i when d control blocks enclose it
\* (return is the branch with the greatest label)
LabelsOf(i, d) ==
    IF i.op = "Return" THEN {d}
    ELSE IF i.op \in {"Br", "BrIf"} THEN {i.a}
    ELSE IF i.op = "BrTable"
    THEN {i.a} \cup {i.table[k] : k \in 1..Len(i.table)}
    ELSE {}

\* the control block opened at position o (1-based) of the original body and
\* closed at e holds a branch to a control block strictly outside it that is
\* not a loop
Escapes(o, e) ==
    \E b \in o + 1..e - 1 :
        LET enc == Enclosing(instructions, b)
            own == CHOOSE j \in 1..Len(enc) : enc[j] = o
        IN  \E l \in LabelsOf(instructions[b], Len(enc)) :
                LET target == Len(enc) - l
                IN  /\ target < own
                    /\ target <= 0 \/ instructions[enc[target]].op /= "Loop"

\* the `end`s that close a block, loop or if of the original body
ClosingEnds ==
    {e \in 1..Len(instructions) :
        instructions[e].op = "End" /\ Enclosing(instructions, e) /= <<>>}

OpenerOf(e) ==
    Enclosing(instructions, e)[Len(Enclosing(instructions, e))]

\* 0-based start position of the metered block in which the instruction at
\* 1-based position j of the original body is counted: a metered block
\* starts at the function, after every `loop`, `if`, `else` and branch, and
\* after the `end` of a control block that holds a branch out of it to a
\* block that is not a loop; a `block` and the instructions after any other
\* `end` continue the metered block of the instruction that opened it
RECURSIVE BlockStart(_)
BlockStart(j) ==
    IF j = 1 THEN 0
    ELSE IF instructions[j - 1].op
              \in {"Loop", "If", "Else", "Br", "BrIf", "BrTable", "Return"}
    THEN j - 1
    ELSE IF instructions[j - 1].op = "End"
    THEN (IF Escapes(OpenerOf(j - 1), j - 1) THEN j - 1
          ELSE BlockStart(OpenerOf(j - 1)))
    ELSE BlockStart(j - 1)

\* the cost of the metered block that starts at q, as a u64
BlockCost(q) ==
    LET counted == {j \in 1..Len(instructions) :
                      instructions[j].op \notin {"End", "Else"} /\ BlockStart(j) = q}
    IN  SumOver([j \in counted |-> CountedCost(instructions, rules, j - 1)],
                counted) % U64Mod

\* the metered block that starts at q has a charge, of its cost, exactly
\* when its cost is not 0
ChargedOwnCost(q) ==
    /\ HasChargeAt(q) = (BlockCost(q) /= 0)
    /\ \A k \in ChargePositions(new_instrs) :
          OrigPos(new_instrs, k) = q => new_instrs[k].a % U64Mod = BlockCost(q)

(***************************************************************************)
(* C19.  When a control block closes at `end`, the instructions after the  *)
(* `end` continue the parent's active metered block unless a br, br_if,    *)
(* br_table or return inside the closed block, at any depth, targets a     *)
(* control block strictly outside it that is not a loop (return targets    *)
(* the function): then the instructions after the `end` start a metered    *)
(* block with a charge of its own.  (A metered block has a charge when    *)
(* its cost, as a u64, is not 0: one that starts at an `end` or `else`     *)
(* has none.)                                                              *)
(***************************************************************************)
C19_BlockExit ==
    Metered =>
        \A e \in ClosingEnds :
            IF Escapes(OpenerOf(e), e)
            THEN HasChargeAt(e) = (BlockCost(e) /= 0)
            ELSE ~HasChargeAt(e)

\* a block closed after a branch out of it to a block that is not a loop,
\* with a charge after its `end`
C19_Witness ==
    /\ Metered
    /\ \E e \in ClosingEnds : Escapes(OpenerOf(e), e) /\ HasChargeAt(e)


\* the `block`s of the original body (1-based positions)
Blocks == {o \in 1..Len(instructions) : instructions[o].op = "Block"}

\* position of the first instruction with an opcode of `ops` inside the
\* block opened at o, at any depth, or of the `end` of the block
FirstOf(o, ops) ==
    LET e == MatchingEnd(instructions, o)
        stops == {b \in o + 1..e - 1 : instructions[b].op \in ops}
    IN  IF stops = {} THEN e
        ELSE CHOOSE b \in stops : \A c \in stops : b <= c

\* no charge stands between the `block` at o and the instruction at x, and
\* a charge follows x if x is a branch and the metered block after it has a
\* cost that is not 0
MergedUpTo(o, x) ==
    /\ \A q \in o..x - 1 : ~HasChargeAt(q)
    /\ instructions[x].op \in {"Br", "BrIf", "BrTable", "Return"}
          => HasChargeAt(x) = (BlockCost(x) /= 0)

(***************************************************************************)
(* C20 as stated.  Opening a `block` never starts a new charge: the cost   *)
(* of the `block` and of every instruction inside it up to the first       *)
(* branch instruction (or up to its `end`) is added to the enclosing       *)
(* active metered block, so no charge stands between the `block` and the   *)
(* first branch inside it (its `end` if it has none), and the instructions *)
(* after the branch form a separate metered block.                         *)
(***************************************************************************)
C20_BlockMergedToBranch ==
    Metered =>
        \A o \in Blocks : MergedUpTo(o, FirstOf(o, {"Br", "BrIf", "BrTable", "Return"}))

(***************************************************************************)
(* C20 as amended.  Opening a `block` never starts a new charge: no charge *)
(* stands between the `block` and the first branch, `if` or `loop` inside  *)
(* it (its `end` if it has none), these instructions are part of the       *)
(* metered block that was active at the `block`; the instructions after a  *)
(* branch form a separate metered block, with a charge of its own when     *)
(* its cost is not 0.                                                      *)
(***************************************************************************)
C20_BlockMerged ==
    Metered =>
        \A o \in Blocks :
            MergedUpTo(o, FirstOf(o, {"Br", "BrIf", "BrTable", "Return",
                                      "If", "Loop"}))

\* a block with instructions before a branch and a counted instruction
\* after it
C20_Witness ==
    /\ Metered
    /\ \E o \in Blocks :
          LET x == FirstOf(o, {"Br", "BrIf", "BrTable", "Return", "If", "Loop"})
          IN  /\ x > o + 1
              /\ instructions[x].op \in {"Br", "BrIf", "BrTable", "Return"}
              /\ HasChargeAt(x)


\* the `loop`s, `if`s and `else`s of the original body (1-based positions):
\* the first instruction of the arm of p stands at 0-based position p
Arms == {p \in 1..Len(instructions) : instructions[p].op \in {"Loop", "If", "Else"}}

(***************************************************************************)
(* C21.  `loop`, `if` and `else` always open a new metered block: the      *)
(* first instruction of every loop body, then-arm and else-arm starts a    *)
(* metered block of its own, which is not merged into the enclosing one    *)
(* and has a charge of its own -- the cost of the instructions of that     *)
(* block alone -- whenever that cost is not 0; the cost of the `loop` or   *)
(* `if` instruction is part of the charge of the metered block in which    *)
(* the instruction stands.                                                 *)
(***************************************************************************)
C21_ArmsOpenBlocks ==
    Metered =>
        \A p \in Arms :
            /\ ChargedOwnCost(p)
            /\ instructions[p].op /= "Else"
                  => BlockStart(p) < p /\ ChargedOwnCost(BlockStart(p))

\* a loop in a then-arm: the `if`, the `loop` and the body of the loop are
\* charged in three metered blocks
C21_Witness ==
    /\ Metered
    /\ \E p, q \in Arms :
          /\ instructions[p].op = "If"
          /\ instructions[q].op = "Loop"
          /\ BlockStart(q) = p
          /\ HasChargeAt(BlockStart(p)) /\ HasChargeAt(p) /\ HasChargeAt(q)


\* the rule of the instruction at 1-based position k of the original body
\* is Linear
LinearAt(k) == instruction_cost(rules, instructions[k]).kind = "Linear"

\* the instruction immediately before position k is an `i32.const`
AfterConst(k) == k > 1 /\ instructions[k - 1].op = "I32Const"

\* what the claim says is charged for the instruction at position k, as a
\* u64: base + v * per after `i32.const v`, the base otherwise, nothing
\* for `end` and `else`
FoldedCost(k) ==
    LET ic == instruction_cost(rules, instructions[k])
    IN  IF instructions[k].op \in {"End", "Else"} THEN 0
        ELSE IF ic.kind = "Linear" /\ AfterConst(k)
        THEN (ic.base + instructions[k - 1].a * ic.per) % U64Mod
        ELSE ic.base

(***************************************************************************)
(* C22.  Constant folding of linear costs: an instruction whose rule is    *)
(* Linear(base, per) is charged base + v * per (as a u64) when the         *)
(* instruction immediately before it is `i32.const v`, and this occurrence *)
(* does not record it as dynamic-cost; otherwise it is charged base and    *)
(* recorded.  A constant separated from it by any other instruction is not *)
(* folded.  Hence the charges of the body add up to the sum of these costs *)
(* and the set returned holds exactly the Linear instructions with an      *)
(* occurrence that does not directly follow an `i32.const`.                *)
(***************************************************************************)
C22_ConstantFolding ==
    Metered =>
        /\ ChargedU64(new_instrs) % U64Mod
              = SumOver([k \in 1..Len(instructions) |-> FoldedCost(k)],
                        1..Len(instructions)) % U64Mod
        /\ dyn_instrs
              = {instructions[k] :
                    k \in {j \in 1..Len(instructions) : LinearAt(j) /\ ~AfterConst(j)}}

\* a body with a folded occurrence and with an occurrence separated from a
\* constant by another instruction
C22_Witness ==
    /\ Metered
    /\ \E k \in 1..Len(instructions) : LinearAt(k) /\ AfterConst(k)
    /\ \E k \in 3..Len(instructions) :
          /\ LinearAt(k)
          /\ ~AfterConst(k)
          /\ instructions[k - 2].op = "I32Const"


\* position, in the instrumented body, of the charge of the i-th of the
\* blocks determine_metered_blocks returned
ChargeOf(blocks, i) == blocks[i].start_pos + 2 * (i - 1) + 1

\* the blocks have pairwise distinct start positions inside the body, each
\* has its charge right before the original instruction at its start
\* position, and the body is the original one with these charges added
Placed(blocks, body) ==
    /\ \A i, j \in 1..Len(blocks) :
          i /= j => blocks[i].start_pos /= blocks[j].start_pos
    /\ \A i \in 1..Len(blocks) : blocks[i].start_pos < Len(instructions)
    /\ Len(body) = Len(instructions) + 2 * Len(blocks)
    /\ StripCharges(body, 1) = instructions
    /\ \A i \in 1..Len(blocks) :
          /\ body[ChargeOf(blocks, i)] = I64Const(U64AsI64(blocks[i].cost))
          /\ body[ChargeOf(blocks, i) + 1] = Call(GasFunc)
          /\ body[ChargeOf(blocks, i) + 2] = instructions[blocks[i].start_pos + 1]

(***************************************************************************)
(* C23.  Insertion never fails on the scanner's own output: whenever       *)
(* determine_metered_blocks succeeds on a body, inject_counter does not    *)
(* return Err, the finalized blocks have pairwise distinct start positions *)
(* smaller than the length of the body, and the instrumented body holds    *)
(* `i64.const cost; call gas_func` right before the original instruction   *)
(* at each start position and all original instructions in their order:    *)
(* its length is the old length plus twice the number of blocks.           *)
(***************************************************************************)
C23_InsertionNeverFails ==
    /\ pc = "failed" => determine_metered_blocks(instructions, rules).err
    /\ Metered => Placed(determine_metered_blocks(instructions, rules).blocks,
                         new_instrs)

\* a sequence with two metered blocks, the body of a loop finalized before
\* the block that holds the `loop`
C23_Witness ==
    /\ Metered
    /\ Cardinality(ChargePositions(new_instrs)) >= 2
    /\ \E o \in 1..Len(instructions) :
          instructions[o].op = "Loop" /\ HasChargeAt(o) /\ HasChargeAt(0)


\* what the dynamic-cost thunk of the Linear instruction at position k
\* charges, as a u64, when its operand is the constant before it
ThunkCost(k) ==
    LET instr == instructions[k]
        counter_body ==
            DynamicCounterBody(instr, instruction_cost(rules, instr).per, GasFunc,
                               instruction_signature(instr).params)
    IN  dynamic_charge(counter_body, 1, <<instructions[k - 1].a>>, <<>>) % U64Mod

\* the cost of the instruction at position k with the linear part of a
\* folded instruction taken from its thunk
AgreedCost(k) ==
    IF LinearAt(k) /\ AfterConst(k)
    THEN instruction_cost(rules, instructions[k]).base + ThunkCost(k)
    ELSE FoldedCost(k)

(***************************************************************************)
(* C24.  Static and dynamic charging agree on the operand's value: for a   *)
(* Linear(base, per) instruction immediately preceded by `i32.const v`,    *)
(* the linear part charged statically is what the dynamic-cost thunk of    *)
(* the instruction charges for the operand v, per times v taken as an      *)
(* unsigned 32-bit value, also for v with the top bit set.  Hence the      *)
(* charges of a body add up to the fixed costs and bases plus what the     *)
(* thunks would charge for the folded constants.                           *)
(***************************************************************************)
C24_StaticEqualsDynamic ==
    Metered =>
        ChargedU64(new_instrs) % U64Mod
            = SumOver([k \in 1..Len(instructions) |-> AgreedCost(k)],
                      1..Len(instructions)) % U64Mod

====
